---------------------------- MODULE Spec2Model ----------------------------
(***************************************************************************)
(* Model of cluster_mash_distances.py: single-linkage clustering of        *)
(* genomes from a stream of MASH distance lines with a union-find forest,  *)
(* followed by the numbering of the clusters and the membership output.    *)
(*                                                                         *)
(* A Python str is a sequence of one-character strings, so that strip,     *)
(* split, replace and the ordering of strings are computed character by    *)
(* character as the interpreter computes them.  A Python dict is a record  *)
(* of its keys in insertion order and the function from keys to values.    *)
(***************************************************************************)
EXTENDS Integers, Sequences, FiniteSets, TLC

(***************************************************************************)
(* Bounds of the model.                                                    *)
(***************************************************************************)
\* The number of lines of the input file.
MaxLines == 3

\* The number of distinct ids offered to a UnionFind used alone.
MaxNodes == 4

(***************************************************************************)
(* Python str operations.                                                  *)
(***************************************************************************)
TAB == "\t"

\* ord(c) for the characters that occur in the modelled inputs.
CodePoint(c) ==
    CASE c = "\t" -> 9   [] c = " " -> 32  [] c = "#" -> 35  [] c = "-" -> 45
      [] c = "." -> 46   [] c = "/" -> 47
      [] c = "0" -> 48   [] c = "1" -> 49  [] c = "2" -> 50  [] c = "3" -> 51
      [] c = "4" -> 52   [] c = "5" -> 53  [] c = "6" -> 54  [] c = "7" -> 55
      [] c = "8" -> 56   [] c = "9" -> 57
      [] c = "A" -> 65   [] c = "B" -> 66  [] c = "C" -> 67  [] c = "D" -> 68
      [] c = "E" -> 69   [] c = "X" -> 88  [] c = "Y" -> 89  [] c = "Z" -> 90
      [] c = "a" -> 97   [] c = "d" -> 100 [] c = "f" -> 102 [] c = "g" -> 103
      [] c = "i" -> 105  [] c = "n" -> 110 [] c = "r" -> 114 [] c = "s" -> 115
      [] c = "t" -> 116  [] c = "x" -> 120 [] c = "z" -> 122

\* str.__lt__: lexicographic comparison by code point.
RECURSIVE StrLess(_, _)
StrLess(a, b) ==
    IF b = <<>> THEN FALSE
    ELSE IF a = <<>> THEN TRUE
    ELSE IF Head(a) = Head(b) THEN StrLess(Tail(a), Tail(b))
    ELSE CodePoint(Head(a)) < CodePoint(Head(b))

\* The characters str.strip() removes that occur in the modelled inputs.
IsSpace(c) == c \in {" ", "\t"}

RECURSIVE LStrip(_)
LStrip(s) ==
    IF s # <<>> /\ IsSpace(Head(s)) THEN LStrip(Tail(s)) ELSE s

RECURSIVE RStrip(_)
RStrip(s) ==
    IF s # <<>> /\ IsSpace(s[Len(s)]) THEN RStrip(SubSeq(s, 1, Len(s) - 1))
    ELSE s

\* str.strip()
Strip(s) == RStrip(LStrip(s))

\* str.startswith(prefix)
StartsWith(s, prefix) ==
    /\ Len(s) >= Len(prefix)
    /\ SubSeq(s, 1, Len(prefix)) = prefix

\* str.split(sep) for a one-character sep: the list of fields, empty fields
\* included; the result always has at least one element.
RECURSIVE SplitFrom(_, _, _)
SplitFrom(s, sep, cur) ==
    IF s = <<>> THEN <<cur>>
    ELSE IF Head(s) = sep THEN <<cur>> \o SplitFrom(Tail(s), sep, <<>>)
    ELSE SplitFrom(Tail(s), sep, Append(cur, Head(s)))

Split(s, sep) == SplitFrom(s, sep, <<>>)

\* str.replace(old, ''): every non-overlapping occurrence of old, scanning
\* from the left, is removed, wherever in the string it occurs.
RECURSIVE RemoveAll(_, _)
RemoveAll(s, old) ==
    IF s = <<>> THEN <<>>
    ELSE IF StartsWith(s, old)
         THEN RemoveAll(SubSeq(s, Len(old) + 1, Len(s)), old)
         ELSE <<Head(s)>> \o RemoveAll(Tail(s), old)

\* The suffixes the driver removes, in the order of its replace calls.
DOT_FA == <<".", "f", "a">>
DOT_FASTA == <<".", "f", "a", "s", "t", "a">>
DOT_FNA == <<".", "f", "n", "a">>

\* parts[i].split('/')[-1].replace('.fa', '').replace('.fasta', '')
\*         .replace('.fna', '')
Canonicalize(token) ==
    LET segs == Split(token, "/")
        last == segs[Len(segs)]
    IN  RemoveAll(RemoveAll(RemoveAll(last, DOT_FA), DOT_FASTA), DOT_FNA)

(***************************************************************************)
(* float(token).  A finite value is the exact decimal num/den (den > 0);   *)
(* the only non-finite values are nan and the two infinities.  Tokens are  *)
(* an optional sign followed by digits with an optional fraction, or by    *)
(* 'nan' or 'inf'; every other token of the modelled inputs raises         *)
(* ValueError.                                                             *)
(***************************************************************************)
DigitChars == <<"0", "1", "2", "3", "4", "5", "6", "7", "8", "9">>

IsDigit(c) == \E i \in 1..Len(DigitChars) : DigitChars[i] = c

DigitVal(c) == (CHOOSE i \in 1..Len(DigitChars) : DigitChars[i] = c) - 1

AllDigits(s) == \A i \in 1..Len(s) : IsDigit(s[i])

RECURSIVE DigitsValue(_, _)
DigitsValue(s, acc) ==
    IF s = <<>> THEN acc
    ELSE DigitsValue(Tail(s), 10 * acc + DigitVal(Head(s)))

RECURSIVE Pow10(_)
Pow10(n) == IF n = 0 THEN 1 ELSE 10 * Pow10(n - 1)

ValueError == [ok |-> FALSE, kind |-> "ValueError", num |-> 0, den |-> 1]

ParseUnsigned(s, sign) ==
    IF s = <<"n", "a", "n">>
    THEN [ok |-> TRUE, kind |-> "nan", num |-> 0, den |-> 1]
    ELSE IF s = <<"i", "n", "f">>
    THEN [ok |-> TRUE, kind |-> "inf", num |-> sign, den |-> 1]
    ELSE LET p == Split(s, ".")
         IN  IF Len(p) = 1 /\ p[1] # <<>> /\ AllDigits(p[1])
             THEN [ok |-> TRUE, kind |-> "finite",
                   num |-> sign * DigitsValue(p[1], 0), den |-> 1]
             ELSE IF /\ Len(p) = 2
                     /\ AllDigits(p[1]) /\ AllDigits(p[2])
                     /\ p[1] \o p[2] # <<>>
             THEN [ok |-> TRUE, kind |-> "finite",
                   num |-> sign * DigitsValue(p[1] \o p[2], 0),
                   den |-> Pow10(Len(p[2]))]
             ELSE ValueError

ParseFloat(token) ==
    LET s == Strip(token)
    IN  IF s # <<>> /\ Head(s) = "-" THEN ParseUnsigned(Tail(s), -1)
        ELSE ParseUnsigned(s, 1)

\* The comparison of the threshold test turned around (>=).
FloatLeq_Geq(a, b) ==
    IF a.kind = "nan" \/ b.kind = "nan" THEN FALSE
    ELSE IF a.kind = "inf" THEN (a.num > 0 \/ (b.kind = "inf" /\ b.num < 0))
    ELSE IF b.kind = "inf" THEN b.num < 0
    ELSE a.num * b.den >= b.num * a.den

\* distance <= args.threshold on floats: false when either side is nan.
FloatLeq(a, b) ==
    IF a.kind = "nan" \/ b.kind = "nan" THEN FALSE
    ELSE IF a.kind = "inf" THEN (a.num < 0 \/ (b.kind = "inf" /\ b.num > 0))
    ELSE IF b.kind = "inf" THEN b.num > 0
    ELSE a.num * b.den <= b.num * a.den


(***************************************************************************)
(* class UnionFind.  uf.parent and uf.rank are the two dicts; uf.order is  *)
(* the insertion order of their keys (both dicts always receive a new key  *)
(* together, so one order serves both).                                    *)
(***************************************************************************)
\* UnionFind.__init__
NewUnionFind == [parent |-> <<>>, rank |-> <<>>, order |-> <<>>]

\* find without the rewriting of parent[x]: the root is looked up and the
\* chain is left as it was.
RECURSIVE Find_NoCompress(_, _)
Find_NoCompress(uf, x) ==
    LET u1 == IF x \in DOMAIN uf.parent THEN uf
              ELSE [parent |-> uf.parent @@ (x :> x),
                    rank   |-> uf.rank @@ (x :> 0),
                    order  |-> Append(uf.order, x)]
    IN  IF u1.parent[x] # x
        THEN [uf |-> u1, root |-> Find_NoCompress(u1, u1.parent[x]).root]
        ELSE [uf |-> u1, root |-> u1.parent[x]]

\* find making x its own parent after the lookup of its root.
RECURSIVE Find_CutLoose(_, _)
Find_CutLoose(uf, x) ==
    LET u1 == IF x \in DOMAIN uf.parent THEN uf
              ELSE [parent |-> uf.parent @@ (x :> x),
                    rank   |-> uf.rank @@ (x :> 0),
                    order  |-> Append(uf.order, x)]
    IN  IF u1.parent[x] # x
        THEN LET r == Find_CutLoose(u1, u1.parent[x])
             IN  [uf   |-> [r.uf EXCEPT !.parent[x] = x],
                  root |-> r.root]
        ELSE [uf |-> u1, root |-> u1.parent[x]]

\* find creating a fresh node with rank 1.
RECURSIVE Find_FreshRankOne(_, _)
Find_FreshRankOne(uf, x) ==
    LET u1 == IF x \in DOMAIN uf.parent THEN uf
              ELSE [parent |-> uf.parent @@ (x :> x),
                    rank   |-> uf.rank @@ (x :> 1),
                    order  |-> Append(uf.order, x)]
    IN  IF u1.parent[x] # x
        THEN LET r == Find_FreshRankOne(u1, u1.parent[x])
             IN  [uf   |-> [r.uf EXCEPT !.parent[x] = r.root],
                  root |-> r.root]
        ELSE [uf |-> u1, root |-> u1.parent[x]]

\* UnionFind.find: returns the forest after the call and the value returned.
RECURSIVE Find(_, _)
Find(uf, x) ==
    LET u1 == IF x \in DOMAIN uf.parent THEN uf
              ELSE [parent |-> uf.parent @@ (x :> x),
                    rank   |-> uf.rank @@ (x :> 0),
                    order  |-> Append(uf.order, x)]
    IN  IF u1.parent[x] # x
        THEN LET r == Find(u1, u1.parent[x])
             IN  [uf   |-> [r.uf EXCEPT !.parent[x] = r.root],
                  root |-> r.root]
        ELSE [uf |-> u1, root |-> u1.parent[x]]

\* union linking its arguments themselves instead of their roots.
Union_NoFind(uf, x, y) ==
    LET u2 == Find(Find(uf, x).uf, y).uf
    IN  IF x = y THEN u2
        ELSE LET swap == u2.rank[x] < u2.rank[y]
                 px   == IF swap THEN y ELSE x
                 py   == IF swap THEN x ELSE y
                 u3   == [u2 EXCEPT !.parent[py] = px]
             IN  IF u3.rank[px] = u3.rank[py]
                 THEN [u3 EXCEPT !.rank[px] = @ + 1]
                 ELSE u3

\* union without the comparison of ranks: the root of y always goes under
\* the root of x.
Union_NoSwap(uf, x, y) ==
    LET fx == Find(uf, x)
        fy == Find(fx.uf, y)
        u2 == fy.uf
    IN  IF fx.root = fy.root THEN u2
        ELSE LET px == fx.root
                 py == fy.root
                 u3 == [u2 EXCEPT !.parent[py] = px]
             IN  IF u3.rank[px] = u3.rank[py]
                 THEN [u3 EXCEPT !.rank[px] = @ + 1]
                 ELSE u3

\* union without the increment of the rank on a tie.
Union_NoRankIncrement(uf, x, y) ==
    LET fx == Find(uf, x)
        fy == Find(fx.uf, y)
        u2 == fy.uf
    IN  IF fx.root = fy.root THEN u2
        ELSE LET swap == u2.rank[fx.root] < u2.rank[fy.root]
                 px   == IF swap THEN fy.root ELSE fx.root
                 py   == IF swap THEN fx.root ELSE fy.root
             IN  [u2 EXCEPT !.parent[py] = px]

\* UnionFind.union
Union(uf, x, y) ==
    LET fx == Find(uf, x)
        fy == Find(fx.uf, y)
        u2 == fy.uf
    IN  IF fx.root = fy.root THEN u2
        ELSE LET swap == u2.rank[fx.root] < u2.rank[fy.root]
                 px   == IF swap THEN fy.root ELSE fx.root
                 py   == IF swap THEN fx.root ELSE fy.root
                 u3   == [u2 EXCEPT !.parent[py] = px]
             IN  IF u3.rank[px] = u3.rank[py]
                 THEN [u3 EXCEPT !.rank[px] = @ + 1]
                 ELSE u3

\* UnionFind.get_clusters: the defaultdict(list) it returns, as the keys in
\* insertion order and the member lists, together with the forest as the
\* find calls of the traversal leave it.
RECURSIVE GetClustersFrom(_, _, _)
GetClustersFrom(uf, i, clusters) ==
    IF i > Len(uf.order) THEN [uf |-> uf, clusters |-> clusters]
    ELSE LET x == uf.order[i]
             f == Find(uf, x)
             c == IF f.root \in DOMAIN clusters.members
                  THEN [clusters EXCEPT !.members[f.root] = Append(@, x)]
                  ELSE [order   |-> Append(clusters.order, f.root),
                        members |-> clusters.members @@ (f.root :> <<x>>)]
         IN  GetClustersFrom(f.uf, i + 1, c)

GetClusters(uf) ==
    GetClustersFrom(uf, 1, [order |-> <<>>, members |-> <<>>])

(***************************************************************************)
(* The inputs: the lines of the distance file (without the line            *)
(* terminator, which strip() removes) and the --threshold argument.        *)
(***************************************************************************)
Field3(a, b, d) == a \o <<TAB>> \o b \o <<TAB>> \o d

Lines ==
    { Field3(<<"A">>, <<"B">>, <<"0", ".", "0", "1">>),
      Field3(<<"B">>, <<"C">>, <<"0", ".", "0", "1">>),
      Field3(<<"D">>, <<"E">>, <<"0", ".", "9">>),
      Field3(<<"A">>, <<"B">>, <<"0", ".", "2">>),
      Field3(<<"X">>, <<"Y">>, <<"0", ".", "0", "1">>),
      Field3(<<"X">>, <<"X">>, <<"0", ".", "0">>),
      Field3(<<"d", "i", "r", "/", "A", ".", "f", "a", "s", "t", "a">>,
             <<"A", ".", "f", "a">>, <<"0", ".", "0", "1">>),
      Field3(<<"Y", ".", "f", "n", "a", ".", "g", "z">>, <<"Y", ".", "g", "z">>,
             <<"0", ".", "9">>),
      <<"#">> \o Field3(<<"A">>, <<"D">>, <<"0", ".", "0", "1">>),
      <<>>,
      <<"A">> \o <<TAB>> \o <<"D">>,
      Field3(<<"A">>, <<"D">>, <<"x">>),
      Field3(<<"D">>, <<"Z">>, <<"n", "a", "n">>) }

\* The values of args.threshold: float('0.05') (the default) and float('0.5').
Thresholds ==
    { ParseFloat(<<"0", ".", "0", "5">>), ParseFloat(<<"0", ".", "5">>) }

(***************************************************************************)
(* main: the state of the driver while it reads the file.  d.uf, d.genomes,*)
(* d.edges_below_threshold and d.total_edges are the locals of main.       *)
(***************************************************************************)
NewDriver ==
    [uf |-> NewUnionFind, genomes |-> {},
     edges_below_threshold |-> 0, total_edges |-> 0]

\* The first line's try block registering the endpoints only of an edge it
\* merges.
FirstLineTry_LazyRegister(d, parts, t) ==
    LET genome1  == Canonicalize(parts[1])
        genome2  == Canonicalize(parts[2])
        distance == ParseFloat(parts[3])
    IN  IF ~distance.ok THEN d
        ELSE LET merge == genome1 # genome2 /\ FloatLeq(distance, t)
             IN  [uf |-> IF merge THEN Union(d.uf, genome1, genome2)
                         ELSE d.uf,
                  genomes |-> IF merge THEN d.genomes \cup {genome1, genome2}
                              ELSE d.genomes,
                  edges_below_threshold |->
                      IF merge THEN d.edges_below_threshold + 1
                      ELSE d.edges_below_threshold,
                  total_edges |-> d.total_edges + 1]

\* The first line's try block without the test genome1 != genome2.
FirstLineTry_NoSelfCheck(d, parts, t) ==
    LET genome1  == Canonicalize(parts[1])
        genome2  == Canonicalize(parts[2])
        distance == ParseFloat(parts[3])
    IN  IF ~distance.ok THEN d
        ELSE LET u1 == Find(Find(d.uf, genome1).uf, genome2).uf
                 merge == FloatLeq(distance, t)
             IN  [uf |-> IF merge THEN Union(u1, genome1, genome2) ELSE u1,
                  genomes |-> d.genomes \cup {genome1, genome2},
                  edges_below_threshold |->
                      IF merge THEN d.edges_below_threshold + 1
                      ELSE d.edges_below_threshold,
                  total_edges |-> d.total_edges + 1]

\* The try block of the first line (lines 102-114); float() raising
\* ValueError leaves the locals as they were (except ... pass).
FirstLineTry(d, parts, t) ==
    LET genome1  == Canonicalize(parts[1])
        genome2  == Canonicalize(parts[2])
        distance == ParseFloat(parts[3])
    IN  IF ~distance.ok THEN d
        ELSE LET u1 == Find(Find(d.uf, genome1).uf, genome2).uf
                 merge == genome1 # genome2 /\ FloatLeq(distance, t)
             IN  [uf |-> IF merge THEN Union(u1, genome1, genome2) ELSE u1,
                  genomes |-> d.genomes \cup {genome1, genome2},
                  edges_below_threshold |->
                      IF merge THEN d.edges_below_threshold + 1
                      ELSE d.edges_below_threshold,
                  total_edges |-> d.total_edges + 1]

\* The handling of the first line of the file (lines 96-116); raw is what
\* f.readline() returns, '' for an empty file.
FirstLine(d, raw, t) ==
    LET first_line == Strip(raw)
    IN  IF StartsWith(first_line, <<"#">>) THEN d
        ELSE LET parts == Split(first_line, TAB)
             IN  IF Len(parts) >= 3 THEN FirstLineTry(d, parts, t) ELSE d

\* The loop's try block merging every pair of distinct genomes, whatever
\* the distance.
LoopLineTry_NoThreshold(d, parts, t) ==
    LET genome1  == Canonicalize(parts[1])
        genome2  == Canonicalize(parts[2])
        distance == ParseFloat(parts[3])
    IN  IF ~distance.ok THEN d
        ELSE LET merge == genome1 # genome2
                 u1 == Find(Find(d.uf, genome1).uf, genome2).uf
             IN  [uf |-> IF merge THEN Union(u1, genome1, genome2) ELSE u1,
                  genomes |-> d.genomes \cup {genome1, genome2},
                  edges_below_threshold |->
                      IF merge THEN d.edges_below_threshold + 1
                      ELSE d.edges_below_threshold,
                  total_edges |-> d.total_edges + 1]

\* The loop's try block registering the endpoints only of the edges it
\* merges.
LoopLineTry_LazyRegister(d, parts, t) ==
    LET genome1  == Canonicalize(parts[1])
        genome2  == Canonicalize(parts[2])
        distance == ParseFloat(parts[3])
    IN  IF ~distance.ok THEN d
        ELSE LET merge == genome1 # genome2 /\ FloatLeq(distance, t)
                 u1 == IF merge THEN Find(Find(d.uf, genome1).uf, genome2).uf ELSE d.uf
             IN  [uf |-> IF merge THEN Union(u1, genome1, genome2) ELSE u1,
                  genomes |-> d.genomes \cup {genome1, genome2},
                  edges_below_threshold |->
                      IF merge THEN d.edges_below_threshold + 1
                      ELSE d.edges_below_threshold,
                  total_edges |-> d.total_edges + 1]

\* The loop's try block counting only the edges that join two classes.
LoopLineTry_CountMerges(d, parts, t) ==
    LET genome1  == Canonicalize(parts[1])
        genome2  == Canonicalize(parts[2])
        distance == ParseFloat(parts[3])
    IN  IF ~distance.ok THEN d
        ELSE LET merge == genome1 # genome2 /\ FloatLeq(distance, t)
                 u1 == Find(Find(d.uf, genome1).uf, genome2).uf
             IN  [uf |-> IF merge THEN Union(u1, genome1, genome2) ELSE u1,
                  genomes |-> d.genomes \cup {genome1, genome2},
                  edges_below_threshold |->
                      IF merge /\ Find(u1, genome1).root # Find(u1, genome2).root THEN d.edges_below_threshold + 1
                      ELSE d.edges_below_threshold,
                  total_edges |-> d.total_edges + 1]

\* The loop's try block without the test genome1 != genome2.
LoopLineTry_NoSelfCheck(d, parts, t) ==
    LET genome1  == Canonicalize(parts[1])
        genome2  == Canonicalize(parts[2])
        distance == ParseFloat(parts[3])
    IN  IF ~distance.ok THEN d
        ELSE LET merge == FloatLeq(distance, t)
                 u1 == Find(Find(d.uf, genome1).uf, genome2).uf
             IN  [uf |-> IF merge THEN Union(u1, genome1, genome2) ELSE u1,
                  genomes |-> d.genomes \cup {genome1, genome2},
                  edges_below_threshold |->
                      IF merge THEN d.edges_below_threshold + 1
                      ELSE d.edges_below_threshold,
                  total_edges |-> d.total_edges + 1]

\* The loop's try block registering the endpoints before float() is called.
LoopLineTry_RegisterBeforeParse(d, parts, t) ==
    LET genome1  == Canonicalize(parts[1])
        genome2  == Canonicalize(parts[2])
        distance == ParseFloat(parts[3])
        u1 == Find(Find(d.uf, genome1).uf, genome2).uf
        merge == genome1 # genome2 /\ FloatLeq(distance, t)
    IN  IF ~distance.ok
        THEN [d EXCEPT !.uf = u1,
                       !.genomes = d.genomes \cup {genome1, genome2}]
        ELSE [uf |-> IF merge THEN Union(u1, genome1, genome2) ELSE u1,
              genomes |-> d.genomes \cup {genome1, genome2},
              edges_below_threshold |->
                  IF merge THEN d.edges_below_threshold + 1
                  ELSE d.edges_below_threshold,
              total_edges |-> d.total_edges + 1]

\* What the driver keeps of the lines it skips: the except clauses of lines
\* 115-116 and 147-148 and the continue of line 129 discard the line, and
\* main has no list of failures, whatever the lines read.
RecordedFailures(lines) == <<>>

\* The try block of the loop (lines 131-148).
LoopLineTry(d, parts, t) ==
    LET genome1  == Canonicalize(parts[1])
        genome2  == Canonicalize(parts[2])
        distance == ParseFloat(parts[3])
    IN  IF ~distance.ok THEN d
        ELSE LET u1 == Find(Find(d.uf, genome1).uf, genome2).uf
                 merge == genome1 # genome2 /\ FloatLeq(distance, t)
             IN  [uf |-> IF merge THEN Union(u1, genome1, genome2) ELSE u1,
                  genomes |-> d.genomes \cup {genome1, genome2},
                  edges_below_threshold |->
                      IF merge THEN d.edges_below_threshold + 1
                      ELSE d.edges_below_threshold,
                  total_edges |-> d.total_edges + 1]

\* The loop skipping blank lines only, not the lines that begin with '#'.
LoopLine_NoCommentSkip(d, raw, t) ==
    LET line == Strip(raw)
    IN  IF line = <<>> THEN d
        ELSE LET parts == Split(line, TAB)
             IN  IF Len(parts) < 3 THEN d ELSE LoopLineTry(d, parts, t)

\* One iteration of the loop over the rest of the file (lines 119-148).
LoopLine(d, raw, t) ==
    LET line == Strip(raw)
    IN  IF line = <<>> \/ StartsWith(line, <<"#">>) THEN d
        ELSE LET parts == Split(line, TAB)
             IN  IF Len(parts) < 3 THEN d ELSE LoopLineTry(d, parts, t)

(***************************************************************************)
(* main after the loop: numbering of the clusters and the output files.    *)
(***************************************************************************)
\* clusters.items(): the (rep, members) pairs in the insertion order of the
\* dict.
Items(clusters) ==
    [i \in 1..Len(clusters.order) |->
        [rep |-> clusters.order[i],
         members |-> clusters.members[clusters.order[i]]]]

\* The sort without reverse=True: ascending size.
RECURSIVE InsertBySize_Ascending(_, _)
InsertBySize_Ascending(sorted, item) ==
    IF sorted = <<>> THEN <<item>>
    ELSE IF Len(Head(sorted).members) <= Len(item.members)
         THEN <<Head(sorted)>> \o InsertBySize_Ascending(Tail(sorted), item)
         ELSE <<item>> \o sorted

\* sorted(..., key=lambda x: len(x[1]), reverse=True) is stable: items of
\* equal size keep the order they have in the input.
RECURSIVE InsertBySize(_, _)
InsertBySize(sorted, item) ==
    IF sorted = <<>> THEN <<item>>
    ELSE IF Len(Head(sorted).members) >= Len(item.members)
         THEN <<Head(sorted)>> \o InsertBySize(Tail(sorted), item)
         ELSE <<item>> \o sorted

RECURSIVE SortBySize(_)
SortBySize(items) ==
    IF items = <<>> THEN <<>>
    ELSE InsertBySize(SortBySize(SubSeq(items, 1, Len(items) - 1)),
                      items[Len(items)])

\* sorted_clusters (line 159)
SortedClusters(clusters) == SortBySize(Items(clusters))

\* cluster_id_map (line 160)
ClusterIdMap(sorted) ==
    [rep \in {sorted[i].rep : i \in 1..Len(sorted)} |->
        (CHOOSE i \in 1..Len(sorted) : sorted[i].rep = rep) - 1]

\* sorted(members) on strings
RECURSIVE InsertStr(_, _)
InsertStr(sorted, x) ==
    IF sorted = <<>> THEN <<x>>
    ELSE IF StrLess(x, Head(sorted)) THEN <<x>> \o sorted
         ELSE <<Head(sorted)>> \o InsertStr(Tail(sorted), x)

RECURSIVE SortStr(_)
SortStr(members) ==
    IF members = <<>> THEN <<>>
    ELSE InsertStr(SortStr(SubSeq(members, 1, Len(members) - 1)),
                   members[Len(members)])

\* The rows written in the order of the member lists, without sorted().
RECURSIVE MembershipRows_Unsorted(_, _)
MembershipRows_Unsorted(sorted, id_map) ==
    IF sorted = <<>> THEN <<>>
    ELSE LET rep     == Head(sorted).rep
             members == Head(sorted).members
         IN  [i \in 1..Len(members) |->
                 [genome |-> members[i], cluster_id |-> id_map[rep],
                  cluster_size |-> Len(members)]]
             \o MembershipRows_Unsorted(Tail(sorted), id_map)

\* The data rows of the membership file (lines 176-180).
RECURSIVE MembershipRows(_, _)
MembershipRows(sorted, id_map) ==
    IF sorted = <<>> THEN <<>>
    ELSE LET rep     == Head(sorted).rep
             members == Head(sorted).members
             names   == SortStr(members)
         IN  [i \in 1..Len(names) |->
                 [genome |-> names[i], cluster_id |-> id_map[rep],
                  cluster_size |-> Len(members)]]
             \o MembershipRows(Tail(sorted), id_map)

\* The data rows of the statistics file (lines 187-189).
StatsRows(sorted, id_map) ==
    [i \in 1..Len(sorted) |->
        [cluster_id |-> id_map[sorted[i].rep],
         size |-> Len(sorted[i].members),
         representative |-> sorted[i].rep]]

\* sizes (line 165)
Sizes(clusters) ==
    [i \in 1..Len(clusters.order) |-> Len(clusters.members[clusters.order[i]])]

RECURSIVE SumSeq(_)
SumSeq(q) == IF q = <<>> THEN 0 ELSE Head(q) + SumSeq(Tail(q))

\* max(sizes) of a non-empty list
MaxSeq(q) == CHOOSE m \in {q[i] : i \in 1..Len(q)} :
                 \A i \in 1..Len(q) : q[i] <= m

(***************************************************************************)
(* main as a function of the file and the threshold, for the properties    *)
(* that compare the runs on two inputs.                                    *)
(***************************************************************************)
RECURSIVE LoopLines(_, _, _)
LoopLines(d, lines, t) ==
    IF lines = <<>> THEN d
    ELSE LoopLines(LoopLine(d, Head(lines), t), Tail(lines), t)

\* The locals of main at line 150, after the whole file has been read.
RunDriver(lines, t) ==
    IF lines = <<>> THEN FirstLine(NewDriver, <<>>, t)
    ELSE LoopLines(FirstLine(NewDriver, Head(lines), t), Tail(lines), t)

\* The data rows of the membership file of a run that reaches line 174.
RunMembership(lines, t) ==
    LET cl     == GetClusters(RunDriver(lines, t).uf).clusters
        sorted == SortedClusters(cl)
    IN  MembershipRows(sorted, ClusterIdMap(sorted))

(***************************************************************************)
(* extract_representatives.py: the first genome of every cluster of a      *)
(* cluster file is its representative, and the representatives are split   *)
(* into train, dev and test by cluster.                                    *)
(***************************************************************************)
\* The number of data lines of the cluster file.
MaxRows == 3

\* int(token) for the modelled inputs: an optional minus sign and digits.
ParseInt(token) ==
    LET s   == Strip(token)
        neg == s # <<>> /\ Head(s) = "-"
        d   == IF neg THEN Tail(s) ELSE s
    IN  IF d # <<>> /\ AllDigits(d)
        THEN [ok |-> TRUE,
              val |-> (IF neg THEN -1 ELSE 1) * DigitsValue(d, 0)]
        ELSE [ok |-> FALSE, val |-> 0]

\* The header line of a cluster file (the one cluster_mash_distances writes).
HeaderLine ==
    <<"g", "e", "n", "o", "m", "e", TAB,
      "c", "l", "u", "s", "t", "e", "r", "_", "i", "d", TAB,
      "c", "l", "u", "s", "t", "e", "r", "_", "s", "i", "z", "e">>

\* The data lines of the cluster file.
RowLines ==
    { Field3(<<"A">>, <<"0">>, <<"2">>),
      Field3(<<"B">>, <<"0">>, <<"2">>),
      Field3(<<"C">>, <<"1">>, <<"1">>),
      Field3(<<"D">>, <<"2">>, <<"1">>),
      <<"E">>,
      Field3(<<"X">>, <<"x">>, <<"1">>) }

\* The --split-ratio arguments; the first is the default of line 31.
DefaultRatio == <<"8", "0", ":", "1", "0", ":", "1", "0">>

SplitRatios ==
    { DefaultRatio,
      <<"1", ":", "1", ":", "1">>,
      <<"8", "0", ":", "2", "0">>,
      <<"2", ":", "-", "1", ":", "1">>,
      <<"0", ":", "0", ":", "0">>,
      <<"8", "0">>,
      <<"x", ":", "1", ":", "1">> }

\* Lines 55-59 on one line of the file: cluster_to_genomes afterwards, or
\* the ValueError of int().
LoadRow(c2g, line) ==
    LET parts == Split(Strip(line), TAB)
    IN  IF Len(parts) >= 2
        THEN LET genome  == parts[1]
                 cluster == ParseInt(parts[2])
             IN  IF ~cluster.ok THEN [ok |-> FALSE, dict |-> c2g]
                 ELSE IF cluster.val \in DOMAIN c2g.members
                 THEN [ok   |-> TRUE,
                       dict |-> [c2g EXCEPT
                                   !.members[cluster.val] = Append(@, genome)]]
                 ELSE [ok   |-> TRUE,
                       dict |-> [order   |-> Append(c2g.order, cluster.val),
                                 members |-> c2g.members
                                                @@ (cluster.val :> <<genome>>)]]
        ELSE [ok |-> TRUE, dict |-> c2g]

\* sorted() of a list of ints.
RECURSIVE InsertInt(_, _)
InsertInt(q, k) ==
    IF q = <<>> THEN <<k>>
    ELSE IF k < Head(q) THEN <<k>> \o q
    ELSE <<Head(q)>> \o InsertInt(Tail(q), k)

RECURSIVE SortInt(_)
SortInt(q) == IF q = <<>> THEN <<>> ELSE InsertInt(SortInt(Tail(q)), Head(q))

\* Lines 62-68.
Representatives(c2g) ==
    LET keys == SortInt(c2g.order)
    IN  [cluster_ids     |-> keys,
         representatives |-> [i \in 1..Len(keys) |-> c2g.members[keys[i]][1]]]

NoFraction == [num |-> 0, den |-> 1]

\* Lines 74-77: the two fractions as exact quotients, or the exception
\* raised.
ParseSplitRatio(ratio) ==
    LET toks  == Split(ratio, ":")
        ints  == [i \in 1..Len(toks) |-> ParseInt(toks[i])]
        total == SumSeq([i \in 1..Len(toks) |-> ints[i].val])
        fail(e) == [error |-> e, train_frac |-> NoFraction,
                    dev_frac |-> NoFraction]
    IN  IF \E i \in 1..Len(toks) : ~ints[i].ok THEN fail("ValueError")
        ELSE IF total = 0 THEN fail("ZeroDivisionError")
        ELSE IF Len(toks) < 2 THEN fail("IndexError")
        ELSE [error      |-> "none",
              train_frac |-> [num |-> ints[1].val, den |-> total],
              dev_frac   |-> [num |-> ints[2].val, den |-> total]]

\* int(n * frac): the product truncated toward zero.  (On the ratios and
\* list lengths of the model the float product truncates to the same
\* integer as the exact one.)
IntTimes(n, frac) ==
    LET a    == n * frac.num
        b    == frac.den
        absa == IF a < 0 THEN -a ELSE a
        absb == IF b < 0 THEN -b ELSE b
    IN  IF (a < 0) = (b < 0) THEN absa \div absb ELSE -(absa \div absb)

\* A slice bound as list slicing reads it: a negative bound counts from the
\* end, and bounds outside the list are clipped.
Clip(i, n) ==
    IF i < 0 THEN (IF i + n < 0 THEN 0 ELSE i + n)
    ELSE IF i > n THEN n ELSE i

\* q[lo:hi]
Slice(q, lo, hi) ==
    LET a == Clip(lo, Len(q))
        b == Clip(hi, Len(q))
    IN  IF b <= a THEN <<>> ELSE SubSeq(q, a + 1, b)

\* The outcomes of random.shuffle on a list of n elements, as the position
\* every element of the result comes from.
Shuffles(n) ==
    {f \in [1..n -> 1..n] : \A i, j \in 1..n : f[i] = f[j] => i = j}

\* Lines 87-98.
SplitByCount(ids, reps, trainf, devf) ==
    LET n         == Len(reps)
        train_end == IntTimes(n, trainf)
        dev_end   == train_end + IntTimes(n, devf)
    IN  [train_genomes  |-> Slice(reps, 0, train_end),
         train_clusters |-> Slice(ids, 0, train_end),
         dev_genomes    |-> Slice(reps, train_end, dev_end),
         dev_clusters   |-> Slice(ids, train_end, dev_end),
         test_genomes   |-> Slice(reps, dev_end, Len(reps)),
         test_clusters  |-> Slice(ids, dev_end, Len(ids))]

\* set(q)
SetOf(q) == {q[i] : i \in 1..Len(q)}

\* The three asserts removed.
AssertsPass_Stripped(trainc, devc, testc) == TRUE

\* Lines 106-112: all three asserts pass.
AssertsPass(trainc, devc, testc) ==
    /\ Cardinality(SetOf(trainc) \cap SetOf(devc)) = 0
    /\ Cardinality(SetOf(trainc) \cap SetOf(testc)) = 0
    /\ Cardinality(SetOf(devc) \cap SetOf(testc)) = 0

\* zip(genomes, clusters) as written to <split>_with_clusters.tsv.
WithClusters(gs, cs) ==
    [i \in 1..(IF Len(gs) < Len(cs) THEN Len(gs) ELSE Len(cs)) |->
        [accession |-> gs[i], cluster |-> cs[i]]]

(***************************************************************************)
(* subsample_segments.py: get_random_nonoverlapping_positions (the same    *)
(* function, with the generator passed in, is in                           *)
(* subsample_gtdb_segments.py).                                            *)
(***************************************************************************)
\* The largest genome_length, n_samples, segment_length and max_attempts of
\* the calls.
MaxGenome == 4
MaxSamples == 2
MaxSegment == 2
MaxAttempts == 2

\* The default of the parameter max_attempts.
DefaultMaxAttempts == 1000

\* The overlap test taking only an identical start position for an
\* overlap.
Overlaps_SameStart(pos, placed, seglen) ==
    \E i \in 1..Len(placed) : pos = placed[i]

\* Lines 103-110: pos overlaps one of the positions already placed.
Overlaps(pos, placed, seglen) ==
    \E i \in 1..Len(placed) :
        ~(pos + seglen <= placed[i] \/ pos >= placed[i] + seglen)

(***************************************************************************)
(* select_phage_only_genomes.py: the representatives of the clusters that  *)
(* hold no fine-tuning accession.                                          *)
(***************************************************************************)
\* The values of --n-genomes that are given.
NGenomesGiven == {[given |-> TRUE, val |-> n] : n \in 0..2}

\* An accession file that does not exist, and one with the given lines.
NoFile == [exists |-> FALSE, lines |-> <<>>]

FileOf(lines) == [exists |-> TRUE, lines |-> lines]

\* The files <split>_accessions.txt of the fine-tuning directory.
AccessionFiles ==
    { NoFile,
      FileOf(<< <<"B">>, <<>> >>),
      FileOf(<< <<"C">> >>),
      FileOf(<< <<" ", "Q", " ">> >>) }

\* load_accessions (lines 52-60).
LoadAccessions(lines) ==
    {Strip(lines[i]) : i \in 1..Len(lines)} \ {<<>>}

\* Lines 82-87 on one line of the vclust file.
LoadVclustRow(c2g, all, line) ==
    LET parts == Split(Strip(line), TAB)
        r     == LoadRow(c2g, line)
    IN  [ok   |-> r.ok,
         dict |-> r.dict,
         all_genomes |-> IF r.ok /\ Len(parts) >= 2
                         THEN all \cup {parts[1]} ELSE all]

\* Lines 105-110.
FineTuningClusters(c2g, accessions) ==
    {c \in DOMAIN c2g.members :
        \E i \in 1..Len(c2g.members[c]) : c2g.members[c][i] \in accessions}

\* sorted() of a set of ints.
RECURSIVE SortSet(_)
SortSet(S) ==
    IF S = {} THEN <<>>
    ELSE LET least == CHOOSE m \in S : \A n \in S : m <= n
         IN  <<least>> \o SortSet(S \ {least})

\* Lines 119-123.
AvailableRepresentatives(c2g, available) ==
    LET keys == SortSet(available)
    IN  [i \in 1..Len(keys) |->
            [cluster |-> keys[i], rep |-> c2g.members[keys[i]][1]]]

\* The test of line 128: None and 0 are both false.
Subsampling(n, reps) == (n.given /\ n.val # 0) /\ n.val < Len(reps)

(***************************************************************************)
(* The run of main as a state machine.                                     *)
(***************************************************************************)
VARIABLES
    threshold,              \* args.threshold
    uf,                     \* the UnionFind object
    genomes,                \* set of the genome names seen
    edges_below_threshold,
    total_edges,
    consumed,               \* the lines read from the file so far
    pc,                     \* the position of main
    clusters,               \* uf.get_clusters()
    sorted_clusters,
    cluster_id_map,
    report,                 \* the figures printed at lines 162-170
    membership,             \* the data rows written to args.output
    stats_rows,             \* the data rows written to args.stats
    ex_pc,                  \* the position of extract_representatives.main
    header,                 \* the first line of the cluster file
    ex_rows,                \* the other lines read from the cluster file
    cluster_to_genomes,
    representatives,
    cluster_ids,
    split_ratio,            \* args.split_ratio
    train_frac, dev_frac,
    train_genomes, train_clusters,
    dev_genomes, dev_clusters,
    test_genomes, test_clusters,
    saved,                  \* the files written to the output directory
    sa_pc,                  \* the position of get_random_nonoverlapping_positions
    genome_length, n_samples, segment_length, max_attempts,
    positions,
    sample_i,               \* the iterations of the outer loop begun
    attempt,                \* the draws made for the current sample
    gave_up,                \* the else branch of line 114 was taken
    sa_result,              \* the list returned
    sel_pc,                 \* the position of select_phage_only_genomes.main
    n_genomes,              \* args.n_genomes
    sel_rows,               \* the lines read from the vclust file
    sel_cluster_to_genomes,
    all_genomes,
    split_i,                \* the splits of line 95 gone through
    finetuning_accessions,
    finetuning_clusters,
    available_clusters,
    available_representatives,
    selected,
    sel_saved               \* the files written to the output directory

\* The variables of the clustering run of cluster_mash_distances.main.
main_vars == <<threshold, uf, genomes, edges_below_threshold, total_edges,
               consumed, pc, clusters, sorted_clusters, cluster_id_map,
               report, membership, stats_rows>>

\* The variables of the run of extract_representatives.main.
extract_vars == <<ex_pc, header, ex_rows, cluster_to_genomes,
                  representatives, cluster_ids, split_ratio,
                  train_frac, dev_frac,
                  train_genomes, train_clusters, dev_genomes, dev_clusters,
                  test_genomes, test_clusters, saved>>

\* The variables of a call of get_random_nonoverlapping_positions.
sample_vars == <<sa_pc, genome_length, n_samples, segment_length,
                 max_attempts, positions, sample_i, attempt, gave_up,
                 sa_result>>

\* The variables of the run of select_phage_only_genomes.main.
select_vars == <<sel_pc, n_genomes, sel_rows, sel_cluster_to_genomes,
                 all_genomes, split_i, finetuning_accessions,
                 finetuning_clusters, available_clusters,
                 available_representatives, selected, sel_saved>>

\* The variables that the clustering run does not touch.
aux_vars == <<extract_vars, sample_vars, select_vars>>

vars == <<main_vars, aux_vars>>

outputs == <<clusters, sorted_clusters, cluster_id_map, report, membership,
             stats_rows>>

\* The locals of main that the reading of the file updates.
Driver ==
    [uf |-> uf, genomes |-> genomes,
     edges_below_threshold |-> edges_below_threshold,
     total_edges |-> total_edges]

SetDriver(d) ==
    /\ uf' = d.uf
    /\ genomes' = d.genomes
    /\ edges_below_threshold' = d.edges_below_threshold
    /\ total_edges' = d.total_edges

NoClusters == [order |-> <<>>, members |-> <<>>]

\* extract_representatives.main before it opens the cluster file, for a
\* given --split-ratio.
ExtractStart(ratio) ==
    /\ ex_pc = "start"
    /\ header = <<>>
    /\ ex_rows = <<>>
    /\ cluster_to_genomes = NoClusters
    /\ representatives = <<>>
    /\ cluster_ids = <<>>
    /\ split_ratio = ratio
    /\ train_frac = NoFraction /\ dev_frac = NoFraction
    /\ train_genomes = <<>> /\ train_clusters = <<>>
    /\ dev_genomes = <<>> /\ dev_clusters = <<>>
    /\ test_genomes = <<>> /\ test_clusters = <<>>
    /\ saved = <<>>

\* extract_representatives.main has not started.
ExtractIdle == ExtractStart(DefaultRatio)

\* get_random_nonoverlapping_positions called with the given arguments.
SampleStart(glen, n, seglen, maxatt) ==
    /\ sa_pc = "start"
    /\ genome_length = glen
    /\ n_samples = n
    /\ segment_length = seglen
    /\ max_attempts = maxatt
    /\ positions = <<>>
    /\ sample_i = 0
    /\ attempt = 0
    /\ gave_up = FALSE
    /\ sa_result = <<>>

\* No call of get_random_nonoverlapping_positions is under way.
SampleIdle == SampleStart(0, 0, 1, DefaultMaxAttempts)

\* The value of args.n_genomes when --n-genomes is not given.
None == [given |-> FALSE, val |-> 0]

\* select_phage_only_genomes.main before it opens the vclust file, for a
\* given --n-genomes.
SelectStart(n) ==
    /\ sel_pc = "start"
    /\ n_genomes = n
    /\ sel_rows = <<>>
    /\ sel_cluster_to_genomes = NoClusters
    /\ all_genomes = {}
    /\ split_i = 0
    /\ finetuning_accessions = {}
    /\ finetuning_clusters = {}
    /\ available_clusters = {}
    /\ available_representatives = <<>>
    /\ selected = <<>>
    /\ sel_saved = <<>>

\* select_phage_only_genomes.main has not started.
SelectIdle == SelectStart(None)

\* main before it opens the file (lines 85-88), for a given threshold.
MainStart(t) ==
    /\ threshold = t
    /\ uf = NewDriver.uf
    /\ genomes = NewDriver.genomes
    /\ edges_below_threshold = NewDriver.edges_below_threshold
    /\ total_edges = NewDriver.total_edges
    /\ consumed = <<>>
    /\ pc = "start"
    /\ clusters = NoClusters
    /\ sorted_clusters = <<>>
    /\ cluster_id_map = <<>>
    /\ report = <<>>
    /\ membership = <<>>
    /\ stats_rows = <<>>

Init ==
    /\ \E t \in Thresholds : MainStart(t)
    /\ ExtractIdle
    /\ SampleIdle
    /\ SelectIdle

\* Lines 94-116 on a file with at least one line.
ReadFirstLine ==
    /\ pc = "start"
    /\ \E raw \in Lines :
          /\ SetDriver(FirstLine(Driver, raw, threshold))
          /\ consumed' = <<raw>>
    /\ pc' = "loop"
    /\ UNCHANGED <<threshold, outputs>>
    /\ UNCHANGED aux_vars

\* Lines 94-148 on an empty file: readline() returns '' and the loop body
\* never runs.
ReadEmptyFile ==
    /\ pc = "start"
    /\ SetDriver(FirstLine(Driver, <<>>, threshold))
    /\ pc' = "eof"
    /\ UNCHANGED <<threshold, consumed, outputs>>
    /\ UNCHANGED aux_vars

\* One iteration of the loop of lines 119-148.
ReadLine ==
    /\ pc = "loop"
    /\ Len(consumed) < MaxLines
    /\ \E raw \in Lines :
          /\ SetDriver(LoopLine(Driver, raw, threshold))
          /\ consumed' = Append(consumed, raw)
    /\ pc' = "loop"
    /\ UNCHANGED <<threshold, outputs>>
    /\ UNCHANGED aux_vars

\* The file is exhausted: the loop ends (lines 150-153 only print).
EndOfFile ==
    /\ pc = "loop"
    /\ pc' = "eof"
    /\ UNCHANGED <<threshold, uf, genomes, edges_below_threshold,
                   total_edges, consumed, outputs>>
    /\ UNCHANGED aux_vars

\* clusters = uf.get_clusters() (line 156)
BuildClusters ==
    /\ pc = "eof"
    /\ LET g == GetClusters(uf)
       IN  /\ uf' = g.uf
           /\ clusters' = g.clusters
    /\ pc' = "assign"
    /\ UNCHANGED <<threshold, genomes, edges_below_threshold, total_edges,
                   consumed, sorted_clusters, cluster_id_map, report,
                   membership, stats_rows>>
    /\ UNCHANGED aux_vars

\* Lines 158-160.
AssignClusterIds ==
    /\ pc = "assign"
    /\ sorted_clusters' = SortedClusters(clusters)
    /\ cluster_id_map' = ClusterIdMap(SortedClusters(clusters))
    /\ pc' = "stats"
    /\ UNCHANGED <<threshold, uf, genomes, edges_below_threshold,
                   total_edges, consumed, clusters, report, membership,
                   stats_rows>>
    /\ UNCHANGED aux_vars

\* Lines 162-170: max(sizes) raises ValueError on an empty list, which ends
\* the program before any output file is opened.
ReportStatistics ==
    /\ pc = "stats"
    /\ LET sizes == Sizes(clusters)
       IN  IF sizes = <<>>
           THEN /\ pc' = "ValueError"
                /\ report' = [num_clusters |-> Len(clusters.order)]
           ELSE /\ pc' = "write"
                /\ report' =
                     [num_clusters |-> Len(clusters.order),
                      singletons |->
                          Cardinality({i \in 1..Len(sizes) : sizes[i] = 1}),
                      largest |-> MaxSeq(sizes),
                      sum_sizes |-> SumSeq(sizes),
                      len_sizes |-> Len(sizes)]
    /\ UNCHANGED <<threshold, uf, genomes, edges_below_threshold,
                   total_edges, consumed, clusters, sorted_clusters,
                   cluster_id_map, membership, stats_rows>>
    /\ UNCHANGED aux_vars

\* Lines 173-180.
WriteMembership ==
    /\ pc = "write"
    /\ membership' = MembershipRows(sorted_clusters, cluster_id_map)
    /\ pc' = "write_stats"
    /\ UNCHANGED <<threshold, uf, genomes, edges_below_threshold,
                   total_edges, consumed, clusters, sorted_clusters,
                   cluster_id_map, report, stats_rows>>
    /\ UNCHANGED aux_vars

\* Lines 182-191: the statistics file is written when --stats was given.
WriteStats ==
    /\ pc = "write_stats"
    /\ \E args_stats \in BOOLEAN :
          stats_rows' = IF args_stats
                        THEN StatsRows(sorted_clusters, cluster_id_map)
                        ELSE stats_rows
    /\ pc' = "done"
    /\ UNCHANGED <<threshold, uf, genomes, edges_below_threshold,
                   total_edges, consumed, clusters, sorted_clusters,
                   cluster_id_map, report, membership>>
    /\ UNCHANGED aux_vars

Next ==
    \/ ReadFirstLine
    \/ ReadEmptyFile
    \/ ReadLine
    \/ EndOfFile
    \/ BuildClusters
    \/ AssignClusterIds
    \/ ReportStatistics
    \/ WriteMembership
    \/ WriteStats

Spec == Init /\ [][Next]_vars

(***************************************************************************)
(* The UnionFind object on its own: any sequence of find and union calls   *)
(* on ids of a small universe, as any caller of the class may make them.   *)
(***************************************************************************)
NodeNames ==
    << <<"A">>, <<"B">>, <<"C">>, <<"D">>, <<"E">>, <<"X">>, <<"Y">>, <<"Z">> >>

Nodes == {NodeNames[i] : i \in 1..MaxNodes}

\* The variables of main other than the forest.
main_rest == <<threshold, genomes, edges_below_threshold, total_edges,
               consumed, pc, clusters, sorted_clusters, cluster_id_map,
               report, membership, stats_rows>>

\* A fresh UnionFind (the state of main is that of line 88 and stays so).
InitUF ==
    /\ MainStart(ParseFloat(<<"0", ".", "0", "5">>))
    /\ ExtractIdle
    /\ SampleIdle
    /\ SelectIdle

\* uf.find(x)
CallFind ==
    /\ \E x \in Nodes : uf' = Find(uf, x).uf
    /\ UNCHANGED <<main_rest, aux_vars>>

\* uf.union(x, y)
CallUnion ==
    /\ \E x, y \in Nodes : uf' = Union(uf, x, y)
    /\ UNCHANGED <<main_rest, aux_vars>>

NextUF ==
    \/ CallFind
    \/ CallUnion

SpecUF == InitUF /\ [][NextUF]_vars

(***************************************************************************)
(* The run of extract_representatives.main as a state machine.             *)
(***************************************************************************)
InitExtract ==
    /\ MainStart(ParseFloat(<<"0", ".", "0", "5">>))
    /\ \E ratio \in SplitRatios : ExtractStart(ratio)
    /\ SampleIdle
    /\ SelectIdle

other_than_extract == <<main_vars, sample_vars, select_vars>>

\* The variables holding the split.
split_vars == <<train_genomes, train_clusters, dev_genomes, dev_clusters,
                test_genomes, test_clusters>>

\* Line 53: the header is read and dropped.
ReadHeader ==
    /\ ex_pc = "start"
    /\ header' = HeaderLine
    /\ ex_pc' = "rows"
    /\ UNCHANGED <<ex_rows, cluster_to_genomes, representatives, cluster_ids,
                   split_ratio, train_frac, dev_frac, split_vars, saved>>
    /\ UNCHANGED other_than_extract

\* Lines 54-59 on the next line of the file.
ReadRow ==
    /\ ex_pc = "rows"
    /\ Len(ex_rows) < MaxRows
    /\ \E line \in RowLines :
          LET r == LoadRow(cluster_to_genomes, line)
          IN  /\ ex_rows' = Append(ex_rows, line)
              /\ cluster_to_genomes' = r.dict
              /\ ex_pc' = IF r.ok THEN "rows" ELSE "ValueError"
    /\ UNCHANGED <<header, representatives, cluster_ids, split_ratio,
                   train_frac, dev_frac, split_vars, saved>>
    /\ UNCHANGED other_than_extract

\* The end of the file, and lines 61-71.
SelectRepresentatives ==
    /\ ex_pc = "rows"
    /\ representatives' = Representatives(cluster_to_genomes).representatives
    /\ cluster_ids' = Representatives(cluster_to_genomes).cluster_ids
    /\ ex_pc' = "ratio"
    /\ UNCHANGED <<header, ex_rows, cluster_to_genomes, split_ratio,
                   train_frac, dev_frac, split_vars, saved>>
    /\ UNCHANGED other_than_extract

\* Lines 73-77.
ParseRatio ==
    /\ ex_pc = "ratio"
    /\ LET r == ParseSplitRatio(split_ratio)
       IN  /\ train_frac' = r.train_frac
           /\ dev_frac' = r.dev_frac
           /\ ex_pc' = IF r.error = "none" THEN "shuffle" ELSE r.error
    /\ UNCHANGED <<header, ex_rows, cluster_to_genomes, representatives,
                   cluster_ids, split_ratio, split_vars, saved>>
    /\ UNCHANGED other_than_extract

\* Lines 79-84: the pairs are shuffled together; with no pair at all the
\* unpacking of zip(*combined) at line 82 raises ValueError.
ShuffleClusters ==
    /\ ex_pc = "shuffle"
    /\ IF Len(representatives) = 0
       THEN /\ ex_pc' = "ValueError"
            /\ UNCHANGED <<representatives, cluster_ids>>
       ELSE /\ \E f \in Shuffles(Len(representatives)) :
                  /\ cluster_ids' =
                        [i \in 1..Len(cluster_ids) |-> cluster_ids[f[i]]]
                  /\ representatives' =
                        [i \in 1..Len(representatives) |->
                            representatives[f[i]]]
            /\ ex_pc' = "split"
    /\ UNCHANGED <<header, ex_rows, cluster_to_genomes, split_ratio,
                   train_frac, dev_frac, split_vars, saved>>
    /\ UNCHANGED other_than_extract

\* Lines 86-103.
SplitClusters ==
    /\ ex_pc = "split"
    /\ LET s == SplitByCount(cluster_ids, representatives, train_frac,
                             dev_frac)
       IN  /\ train_genomes' = s.train_genomes
           /\ train_clusters' = s.train_clusters
           /\ dev_genomes' = s.dev_genomes
           /\ dev_clusters' = s.dev_clusters
           /\ test_genomes' = s.test_genomes
           /\ test_clusters' = s.test_clusters
    /\ ex_pc' = "verify"
    /\ UNCHANGED <<header, ex_rows, cluster_to_genomes, representatives,
                   cluster_ids, split_ratio, train_frac, dev_frac, saved>>
    /\ UNCHANGED other_than_extract

\* Lines 105-113.
VerifyNoOverlap ==
    /\ ex_pc = "verify"
    /\ ex_pc' = IF AssertsPass(train_clusters, dev_clusters, test_clusters)
                THEN "save" ELSE "AssertionError"
    /\ UNCHANGED <<header, ex_rows, cluster_to_genomes, representatives,
                   cluster_ids, split_ratio, train_frac, dev_frac,
                   split_vars, saved>>
    /\ UNCHANGED other_than_extract

\* Lines 115-162: the files of the three splits and the list of all
\* representatives.
SaveOutputs ==
    /\ ex_pc = "save"
    /\ saved' =
          [train_accessions    |-> train_genomes,
           train_with_clusters |-> WithClusters(train_genomes, train_clusters),
           dev_accessions      |-> dev_genomes,
           dev_with_clusters   |-> WithClusters(dev_genomes, dev_clusters),
           test_accessions     |-> test_genomes,
           test_with_clusters  |-> WithClusters(test_genomes, test_clusters),
           all_representatives |->
               train_genomes \o dev_genomes \o test_genomes]
    /\ ex_pc' = "done"
    /\ UNCHANGED <<header, ex_rows, cluster_to_genomes, representatives,
                   cluster_ids, split_ratio, train_frac, dev_frac,
                   split_vars>>
    /\ UNCHANGED other_than_extract

NextExtract ==
    \/ ReadHeader
    \/ ReadRow
    \/ SelectRepresentatives
    \/ ParseRatio
    \/ ShuffleClusters
    \/ SplitClusters
    \/ VerifyNoOverlap
    \/ SaveOutputs

SpecExtract == InitExtract /\ [][NextExtract]_vars

(***************************************************************************)
(* A call of get_random_nonoverlapping_positions as a state machine.       *)
(***************************************************************************)
InitSample ==
    /\ MainStart(ParseFloat(<<"0", ".", "0", "5">>))
    /\ ExtractIdle
    /\ SelectIdle
    /\ \E glen \in 0..MaxGenome, n \in 0..MaxSamples,
          seglen \in 1..MaxSegment, maxatt \in 0..MaxAttempts :
              SampleStart(glen, n, seglen, maxatt)

\* What a call of the function never changes.
sample_args == <<genome_length, n_samples, segment_length, max_attempts>>

other_than_sample == <<main_vars, extract_vars, select_vars>>

\* Lines 91-95.
CheckLength ==
    /\ sa_pc = "start"
    /\ IF genome_length < segment_length
       THEN sa_pc' = "returned"
       ELSE sa_pc' = "sample"
    /\ UNCHANGED <<sample_args, positions, sample_i, attempt, gave_up,
                   sa_result>>
    /\ UNCHANGED other_than_sample

\* Line 97: the next iteration of the outer loop begins.
BeginSample ==
    /\ sa_pc = "sample"
    /\ sample_i < n_samples
    /\ sample_i' = sample_i + 1
    /\ attempt' = 0
    /\ sa_pc' = "attempt"
    /\ UNCHANGED <<sample_args, positions, gave_up, sa_result>>
    /\ UNCHANGED other_than_sample

\* Lines 99-113: one draw; the position is kept when it overlaps none of
\* those placed.
Draw ==
    /\ sa_pc = "attempt"
    /\ attempt < max_attempts
    /\ \E pos \in 0..(genome_length - segment_length) :
          IF Overlaps(pos, positions, segment_length)
          THEN /\ attempt' = attempt + 1
               /\ UNCHANGED <<positions, sa_pc>>
          ELSE /\ positions' = Append(positions, pos)
               /\ attempt' = attempt + 1
               /\ sa_pc' = "sample"
    /\ UNCHANGED <<sample_args, sample_i, gave_up, sa_result>>
    /\ UNCHANGED other_than_sample

\* Lines 114-117: max_attempts draws have failed; the outer loop is left.
GiveUp ==
    /\ sa_pc = "attempt"
    /\ attempt >= max_attempts
    /\ gave_up' = TRUE
    /\ sa_pc' = "sort"
    /\ UNCHANGED <<sample_args, positions, sample_i, attempt, sa_result>>
    /\ UNCHANGED other_than_sample

\* Line 97, the outer loop exhausted.
AllPlaced ==
    /\ sa_pc = "sample"
    /\ sample_i >= n_samples
    /\ sa_pc' = "sort"
    /\ UNCHANGED <<sample_args, positions, sample_i, attempt, gave_up,
                   sa_result>>
    /\ UNCHANGED other_than_sample

\* Line 119.
ReturnSorted ==
    /\ sa_pc = "sort"
    /\ sa_result' = SortInt(positions)
    /\ sa_pc' = "returned"
    /\ UNCHANGED <<sample_args, positions, sample_i, attempt, gave_up>>
    /\ UNCHANGED other_than_sample

NextSample ==
    \/ CheckLength
    \/ BeginSample
    \/ Draw
    \/ GiveUp
    \/ AllPlaced
    \/ ReturnSorted

SpecSample == InitSample /\ [][NextSample]_vars

(***************************************************************************)
(* The run of select_phage_only_genomes.main as a state machine.           *)
(***************************************************************************)
InitSelect ==
    /\ MainStart(ParseFloat(<<"0", ".", "0", "5">>))
    /\ ExtractIdle
    /\ SampleIdle
    /\ \E n \in NGenomesGiven \cup {None} : SelectStart(n)

other_than_select == <<main_vars, extract_vars, sample_vars>>

\* The variables assigned after the files have been loaded.
selection_vars == <<finetuning_clusters, available_clusters,
                    available_representatives, selected, sel_saved>>

\* Line 80: the header is read and dropped.
SkipVclustHeader ==
    /\ sel_pc = "start"
    /\ sel_pc' = "rows"
    /\ UNCHANGED <<n_genomes, sel_rows, sel_cluster_to_genomes, all_genomes,
                   split_i, finetuning_accessions, selection_vars>>
    /\ UNCHANGED other_than_select

\* Lines 81-87 on the next line of the file.
ReadVclustRow ==
    /\ sel_pc = "rows"
    /\ Len(sel_rows) < MaxRows
    /\ \E line \in RowLines :
          LET r == LoadVclustRow(sel_cluster_to_genomes, all_genomes, line)
          IN  /\ sel_rows' = Append(sel_rows, line)
              /\ sel_cluster_to_genomes' = r.dict
              /\ all_genomes' = r.all_genomes
              /\ sel_pc' = IF r.ok THEN "rows" ELSE "ValueError"
    /\ UNCHANGED <<n_genomes, split_i, finetuning_accessions, selection_vars>>
    /\ UNCHANGED other_than_select

\* The end of the file (lines 89-94).
EndOfVclust ==
    /\ sel_pc = "rows"
    /\ sel_pc' = "accessions"
    /\ UNCHANGED <<n_genomes, sel_rows, sel_cluster_to_genomes, all_genomes,
                   split_i, finetuning_accessions, selection_vars>>
    /\ UNCHANGED other_than_select

\* Lines 95-100 for the next of the splits train, dev and test.
LoadAccessionFile ==
    /\ sel_pc = "accessions"
    /\ split_i < 3
    /\ \E file \in AccessionFiles :
          finetuning_accessions' =
              IF file.exists
              THEN finetuning_accessions \cup LoadAccessions(file.lines)
              ELSE finetuning_accessions
    /\ split_i' = split_i + 1
    /\ UNCHANGED <<sel_pc, n_genomes, sel_rows, sel_cluster_to_genomes,
                   all_genomes, selection_vars>>
    /\ UNCHANGED other_than_select

\* Lines 102-125.
FindAvailable ==
    /\ sel_pc = "accessions"
    /\ split_i = 3
    /\ LET used  == FineTuningClusters(sel_cluster_to_genomes,
                                       finetuning_accessions)
           avail == DOMAIN sel_cluster_to_genomes.members \ used
       IN  /\ finetuning_clusters' = used
           /\ available_clusters' = avail
           /\ available_representatives' =
                 AvailableRepresentatives(sel_cluster_to_genomes, avail)
    /\ sel_pc' = "subsample"
    /\ UNCHANGED <<n_genomes, sel_rows, sel_cluster_to_genomes, all_genomes,
                   split_i, finetuning_accessions, selected, sel_saved>>
    /\ UNCHANGED other_than_select

\* Lines 127-134.
Subsample ==
    /\ sel_pc = "subsample"
    /\ IF Subsampling(n_genomes, available_representatives)
       THEN \E f \in Shuffles(Len(available_representatives)) :
               LET shuffled == [i \in 1..Len(available_representatives) |->
                                   available_representatives[f[i]]]
               IN  /\ available_representatives' = shuffled
                   /\ selected' = Slice(shuffled, 0, n_genomes.val)
       ELSE /\ selected' = available_representatives
            /\ UNCHANGED available_representatives
    /\ sel_pc' = "save"
    /\ UNCHANGED <<n_genomes, sel_rows, sel_cluster_to_genomes, all_genomes,
                   split_i, finetuning_accessions, finetuning_clusters,
                   available_clusters, sel_saved>>
    /\ UNCHANGED other_than_select

\* Lines 136-171.
SavePhageOnly ==
    /\ sel_pc = "save"
    /\ sel_saved' =
          [phage_only_accessions |->
               [i \in 1..Len(selected) |-> selected[i].rep],
           phage_only_with_clusters |->
               [i \in 1..Len(selected) |->
                   [accession |-> selected[i].rep,
                    cluster   |-> selected[i].cluster]]]
    /\ sel_pc' = "done"
    /\ UNCHANGED <<n_genomes, sel_rows, sel_cluster_to_genomes, all_genomes,
                   split_i, finetuning_accessions, finetuning_clusters,
                   available_clusters, available_representatives, selected>>
    /\ UNCHANGED other_than_select

NextSelect ==
    \/ SkipVclustHeader
    \/ ReadVclustRow
    \/ EndOfVclust
    \/ LoadAccessionFile
    \/ FindAvailable
    \/ Subsample
    \/ SavePhageOnly

SpecSelect == InitSelect /\ [][NextSelect]_vars

(***************************************************************************)
(* Vocabulary of the properties.                                           *)
(***************************************************************************)
\* The named inputs of the scenarios.
T005 == ParseFloat(<<"0", ".", "0", "5">>)
T05 == ParseFloat(<<"0", ".", "5">>)
LineAB == Field3(<<"A">>, <<"B">>, <<"0", ".", "0", "1">>)
LineBC == Field3(<<"B">>, <<"C">>, <<"0", ".", "0", "1">>)
LineDE == Field3(<<"D">>, <<"E">>, <<"0", ".", "9">>)
LineAB02 == Field3(<<"A">>, <<"B">>, <<"0", ".", "2">>)
LineXY == Field3(<<"X">>, <<"Y">>, <<"0", ".", "0", "1">>)
LineXX == Field3(<<"X">>, <<"X">>, <<"0", ".", "0">>)
TokDirAFasta == <<"d", "i", "r", "/", "A", ".", "f", "a", "s", "t", "a">>
TokAFa == <<"A", ".", "f", "a">>
LineAForms == Field3(TokDirAFasta, TokAFa, <<"0", ".", "0", "1">>)

\* The edge a line stands for: ok when the line is a data line with at
\* least three fields and a distance that float() accepts.
DataEdge(raw) ==
    LET line  == Strip(raw)
        parts == Split(line, TAB)
    IN  IF StartsWith(line, <<"#">>) \/ Len(parts) < 3
        THEN [ok |-> FALSE]
        ELSE [ok |-> ParseFloat(parts[3]).ok,
              raw_source |-> parts[1], raw_target |-> parts[2],
              source |-> Canonicalize(parts[1]),
              target |-> Canonicalize(parts[2]),
              distance |-> ParseFloat(parts[3])]

\* The edge of every line of the input alphabet.
EdgeTable == [raw \in Lines |-> DataEdge(raw)]

\* The lines of a file that were parsed into an edge.
ParsedAt(lines) == {i \in 1..Len(lines) : EdgeTable[lines[i]].ok}

\* The parsed edges that link their endpoints under threshold t.
LinkingAt(lines, t) ==
    {i \in ParsedAt(lines) :
        /\ EdgeTable[lines[i]].source # EdgeTable[lines[i]].target
        /\ FloatLeq(EdgeTable[lines[i]].distance, t)}

\* The linking edges as pairs of genomes, in both directions.
Links(lines, t) ==
    UNION {{<<EdgeTable[lines[i]].source, EdgeTable[lines[i]].target>>,
            <<EdgeTable[lines[i]].target, EdgeTable[lines[i]].source>>} :
              i \in LinkingAt(lines, t)}

\* The genomes a chain of links connects to those of set.
RECURSIVE ChainClosure(_, _)
ChainClosure(set, links) ==
    LET step == set \cup {l[2] : l \in {k \in links : k[1] \in set}}
    IN  IF step = set THEN set ELSE ChainClosure(step, links)

\* The cluster_id of genome g in the membership rows.
ClusterIdOf(rows, g) ==
    rows[CHOOSE i \in 1..Len(rows) : rows[i].genome = g].cluster_id

\* The clusters the membership rows describe, as sets of genomes.
ClustersOf(rows) ==
    {{rows[j].genome : j \in {k \in 1..Len(rows) :
                                 rows[k].cluster_id = rows[i].cluster_id}} :
        i \in 1..Len(rows)}

\* The root of x in forest u, following parent pointers without changing
\* them, and the partition of the registered genomes into trees.
RECURSIVE Root(_, _)
Root(u, x) == IF u.parent[x] = x THEN x ELSE Root(u, u.parent[x])

Partition(u) ==
    {{y \in DOMAIN u.parent : Root(u, y) = Root(u, x)} : x \in DOMAIN u.parent}

\* The membership file has been written.
Written == pc \in {"write_stats", "done"}

\* The file has been read to its end.
Exhausted == pc \notin {"start", "loop"}

\* The orderings of the lines of a file.
Orderings(lines) ==
    {[i \in 1..Len(lines) |-> lines[f[i]]] :
        f \in {g \in [1..Len(lines) -> 1..Len(lines)] :
                  \A i, j \in 1..Len(lines) : g[i] = g[j] => i = j}}

(***************************************************************************)
(* Properties of the clustering run.                                       *)
(***************************************************************************)
\* The chain rule of single linkage: two registered genomes share a
\* cluster_id exactly when a chain of linking edges connects them.
ChainRule ==
    LET links == Links(consumed, threshold)
    IN  \A g, h \in genomes :
            (ClusterIdOf(membership, g) = ClusterIdOf(membership, h))
                <=> (h \in ChainClosure({g}, links))

\* The file of the scenario: the three edges in the order given.
ScenarioABCDE ==
    /\ consumed = <<LineAB, LineBC, LineDE>>
    /\ threshold = T005

\* C1 (as stated): once the membership is written, the chain rule holds,
\* and the edges (A,B,0.01), (B,C,0.01), (D,E,0.9) with threshold 0.05 give
\* exactly the clusters {A,B,C} and {D,E}.
C1_SingleLinkage_Original ==
    Written =>
        /\ ChainRule
        /\ ScenarioABCDE =>
              ClustersOf(membership) =
                  {{<<"A">>, <<"B">>, <<"C">>}, {<<"D">>, <<"E">>}}

\* C1 (amended): once the membership is written, the chain rule holds, and
\* the edges (A,B,0.01), (B,C,0.01), (D,E,0.9) with threshold 0.05 give
\* exactly the clusters {A,B,C}, {D} and {E}: the edge (D,E,0.9) is above
\* the threshold and links nothing.
C1_SingleLinkage ==
    Written =>
        /\ ChainRule
        /\ ScenarioABCDE =>
              ClustersOf(membership) =
                  {{<<"A">>, <<"B">>, <<"C">>}, {<<"D">>}, {<<"E">>}}

\* The scenario has been run to its end: A and C, which no line names
\* together, share a cluster.
C1_Witness ==
    /\ Written
    /\ ScenarioABCDE
    /\ ClusterIdOf(membership, <<"A">>) = ClusterIdOf(membership, <<"C">>)

\* C2: every ordering of the lines read gives the same membership rows
\* (the same cluster_id and cluster_size for every genome) as this run.
C2_OrderIndependence ==
    Written =>
        \A other \in Orderings(consumed) :
            RunMembership(other, threshold) = membership

\* The smallest member of a cluster (a set of names) in str order.
MinMember(c) == CHOOSE m \in c : \A n \in c : n = m \/ StrLess(m, n)

\* C3: of two clusters of the same size, the one with the smaller smallest
\* member has the lower cluster_id.
C3_TieBreak ==
    Written =>
        \A c1, c2 \in ClustersOf(membership) :
            (Cardinality(c1) = Cardinality(c2)
                /\ StrLess(MinMember(c1), MinMember(c2)))
            => ClusterIdOf(membership, MinMember(c1))
                   < ClusterIdOf(membership, MinMember(c2))

\* The raw endpoint tokens of the parsed lines of a file.
RawEndpoints(lines) ==
    UNION {{EdgeTable[lines[i]].raw_source, EdgeTable[lines[i]].raw_target} :
              i \in ParsedAt(lines)}

\* The three forms of genome A that the canonicalization is to unify.
AForms == {TokDirAFasta, TokAFa, <<"A">>}

\* C4: when every endpoint read so far is one of "dir/A.fasta", "A.fa" and
\* "A", the forest and the genome set hold exactly one vertex.
C4_CanonicalizationUnifies ==
    (RawEndpoints(consumed) # {} /\ RawEndpoints(consumed) \subseteq AForms)
        => /\ Cardinality(DOMAIN uf.parent) = 1
           /\ Cardinality(genomes) = 1

\* str.endswith(suffix)
EndsWith(s, suffix) ==
    /\ Len(s) >= Len(suffix)
    /\ SubSeq(s, Len(s) - Len(suffix) + 1, Len(s)) = suffix

\* The GenomeId of a token as C5 defines it: the final '/'-separated
\* segment with at most one trailing .fa, .fasta or .fna removed.
TrailingCanonical(token) ==
    LET segs == Split(token, "/")
        last == segs[Len(segs)]
    IN  IF EndsWith(last, DOT_FASTA)
        THEN SubSeq(last, 1, Len(last) - Len(DOT_FASTA))
        ELSE IF EndsWith(last, DOT_FNA)
        THEN SubSeq(last, 1, Len(last) - Len(DOT_FNA))
        ELSE IF EndsWith(last, DOT_FA)
        THEN SubSeq(last, 1, Len(last) - Len(DOT_FA))
        ELSE last

\* C5: the registered genomes are exactly the endpoint tokens read, each
\* reduced to its final path segment without one trailing extension.
C5_TrailingSuffixOnly ==
    genomes = {TrailingCanonical(tok) : tok \in RawEndpoints(consumed)}

\* C6: the cluster ids are exactly 0 .. num_clusters-1, one per cluster,
\* and a lower id never belongs to a smaller cluster, both in the id map
\* and in the rows written.
C6_DenseSizeOrdered ==
    LET reps == {clusters.order[i] : i \in 1..Len(clusters.order)}
        n    == Len(clusters.order)
        size(id) == Cardinality({k \in 1..Len(membership) :
                                    membership[k].cluster_id = id})
    IN  /\ pc \in {"stats", "write", "write_stats", "done", "ValueError"} =>
              /\ DOMAIN cluster_id_map = reps
              /\ {cluster_id_map[r] : r \in reps} = 0..(n - 1)
              /\ \A r1, r2 \in reps :
                    cluster_id_map[r1] = cluster_id_map[r2] => r1 = r2
              /\ \A r1, r2 \in reps :
                    cluster_id_map[r1] < cluster_id_map[r2] =>
                        Len(clusters.members[r1]) >= Len(clusters.members[r2])
        /\ Written =>
              /\ {membership[k].cluster_id : k \in 1..Len(membership)}
                     = 0..(n - 1)
              /\ \A g, h \in genomes :
                    (ClusterIdOf(membership, g) = ClusterIdOf(membership, h))
                        <=> (Root(uf, g) = Root(uf, h))
              /\ \A i, j \in 0..(n - 1) : i < j => size(i) >= size(j)
              /\ \A i \in 0..(n - 1) : size(0) >= size(i)

\* A membership with a singleton cluster read before a larger cluster.
C6_Witness ==
    /\ Written
    /\ Len(clusters.order) >= 2
    /\ Len(clusters.members[clusters.order[1]])
           < Len(clusters.members[clusters.order[2]])

\* The canonical endpoints of the parsed lines of a file.
Endpoints(lines) ==
    UNION {{EdgeTable[lines[i]].source, EdgeTable[lines[i]].target} :
              i \in ParsedAt(lines)}

\* C7: every registered genome has exactly one row, the cluster_size of a
\* row is the number of rows with its cluster_id, and the genomes of the
\* rows are exactly the endpoints of the parsed lines.
C7_Closure ==
    Written =>
        /\ \A g \in genomes \cup DOMAIN uf.parent :
              Cardinality({k \in 1..Len(membership) :
                              membership[k].genome = g}) = 1
        /\ \A k \in 1..Len(membership) :
              membership[k].cluster_size =
                  Cardinality({j \in 1..Len(membership) :
                      membership[j].cluster_id = membership[k].cluster_id})
        /\ {membership[k].genome : k \in 1..Len(membership)}
               = Endpoints(consumed)

\* A membership of several clusters from a file with a skipped line.
C7_Witness ==
    /\ Written
    /\ ParsedAt(consumed) # 1..Len(consumed)
    /\ Cardinality(ClustersOf(membership)) >= 2
    /\ \E k \in 1..Len(membership) : membership[k].cluster_size >= 2

\* t1 <= t2 on two finite thresholds.
ThresholdLeq(t1, t2) == t1.num * t2.den <= t2.num * t1.den

\* C8: with another threshold t2 >= threshold on the same lines, every
\* cluster of this run lies within a cluster of the other run, and the
\* other run has no more clusters.
C8_ThresholdMonotone ==
    Written =>
        \A t2 \in Thresholds \ {threshold} :
            ThresholdLeq(threshold, t2) =>
                LET mine   == ClustersOf(membership)
                    others == ClustersOf(RunMembership(consumed, t2))
                IN  /\ \A c \in mine : \E c2 \in others : c \subseteq c2
                    /\ Cardinality(others) <= Cardinality(mine)

\* A run whose clusters the larger threshold merges.
C8_Witness ==
    /\ Written
    /\ threshold = T005
    /\ Cardinality(ClustersOf(RunMembership(consumed, T05)))
           < Cardinality(ClustersOf(membership))

\* C9: after the stream, total_edges is the number of parsed lines and
\* edges_below_threshold the number of those with distinct endpoints and
\* distance <= threshold; (A,B,0.2) with threshold 0.05 gives 1 and 0.
C9_EdgeCounters ==
    Exhausted =>
        /\ total_edges = Cardinality(ParsedAt(consumed))
        /\ edges_below_threshold = Cardinality(LinkingAt(consumed, threshold))
        /\ (consumed = <<LineAB02>> /\ threshold = T005) =>
              (total_edges = 1 /\ edges_below_threshold = 0)

\* A stream with a self-edge, an edge above the threshold and a repeated
\* edge whose endpoints are already in one class.
C9_Witness ==
    /\ Exhausted
    /\ threshold = T005
    /\ consumed = <<LineAB, LineAB, LineXX>>
    /\ total_edges = 3
    /\ edges_below_threshold = 2

\* The scenario of C9.
C9_WitnessScenario ==
    /\ Exhausted
    /\ threshold = T005
    /\ consumed = <<LineAB02>>
    /\ total_edges = 1

\* C10: the step that reads a parsed line whose canonical source equals its
\* canonical target registers that genome, adds one to total_edges, leaves
\* edges_below_threshold alone and changes the partition by at most the
\* new singleton.
C10_SelfEdgeSafety ==
    [][(Len(consumed') = Len(consumed) + 1
           /\ EdgeTable[consumed'[Len(consumed')]].ok
           /\ EdgeTable[consumed'[Len(consumed')]].source
                  = EdgeTable[consumed'[Len(consumed')]].target)
       => LET x == EdgeTable[consumed'[Len(consumed')]].source
          IN  /\ genomes' = genomes \cup {x}
              /\ DOMAIN uf'.parent = DOMAIN uf.parent \cup {x}
              /\ total_edges' = total_edges + 1
              /\ edges_below_threshold' = edges_below_threshold
              /\ Partition(uf') =
                     IF x \in DOMAIN uf.parent THEN Partition(uf)
                     ELSE Partition(uf) \cup {{x}}]_vars

\* The self-edge (X,X,0.0) has just been read after X was merged with Y.
C10_Witness ==
    /\ pc = "loop"
    /\ consumed = <<LineXY, LineXX>>
    /\ {<<"X">>, <<"Y">>} \in Partition(uf)
    /\ total_edges = 2

\* The self-edge (X,X,0.0) has just registered X as a new singleton.
C10_WitnessFresh ==
    /\ pc = "loop"
    /\ consumed = <<LineAB, LineXX>>
    /\ {<<"X">>} \in Partition(uf)

\* C11: the endpoints of every parsed line are keys of the forest and
\* members of the genome set, whatever the distance, and each has a row
\* once the membership is written; (A,B,0.2) with threshold 0.05 gives the
\* two singleton clusters {A} and {B}.
C11_ExcludedEdgesRegistered ==
    /\ pc # "start" =>
          /\ Endpoints(consumed) \subseteq DOMAIN uf.parent
          /\ Endpoints(consumed) \subseteq DOMAIN uf.rank
          /\ Endpoints(consumed) \subseteq genomes
    /\ Written =>
          /\ Endpoints(consumed)
                 \subseteq {membership[k].genome : k \in 1..Len(membership)}
          /\ (consumed = <<LineAB02>> /\ threshold = T005) =>
                 ClustersOf(membership) = {{<<"A">>}, {<<"B">>}}

\* The scenario of C11 run to its end: the edge is above the threshold and
\* both endpoints have a row.
C11_Witness ==
    /\ Written
    /\ consumed = <<LineAB02>>
    /\ threshold = T005
    /\ edges_below_threshold = 0
    /\ Len(membership) = 2

\* The kinds of line of section 4.1: blank, comment, a data line with too
\* few fields, a data line whose distance float() rejects, or an edge.
LineKind(raw) ==
    LET line  == Strip(raw)
        parts == Split(line, TAB)
    IN  IF line = <<>> THEN "blank"
        ELSE IF Head(line) = "#" THEN "comment"
        ELSE IF Len(parts) < 3 THEN "few_fields"
        ELSE IF ParseFloat(parts[3]).kind = "ValueError" THEN "bad_distance"
        ELSE "edge"

\* The kind of every line of the input alphabet.
KindTable == [raw \in Lines |-> LineKind(raw)]

Malformed(raw) == KindTable[raw] \in {"few_fields", "bad_distance"}

WellFormed(raw) == ~Malformed(raw)

\* The line read by the step from the current state to the next.
LineJustRead == consumed'[Len(consumed')]

\* A step that reads one line of the file.
ReadsALine == Len(consumed') = Len(consumed) + 1

\* The step that reads a malformed line changes nothing of the forest, the
\* genome set and the counters, and leaves the driver in its loop.
MalformedStepInert ==
    (ReadsALine /\ Malformed(LineJustRead)) =>
        /\ uf' = uf
        /\ genomes' = genomes
        /\ total_edges' = total_edges
        /\ edges_below_threshold' = edges_below_threshold
        /\ pc' = "loop"

\* The membership written is that of the same file without its malformed
\* lines.
MalformedRemovable ==
    Written =>
        membership = RunMembership(SelectSeq(consumed, WellFormed), threshold)

\* C12: a data line with fewer than 3 fields or a distance that float()
\* rejects registers nothing, merges nothing and changes no counter, the
\* driver reads on, and the final membership equals that of the stream
\* without the malformed lines.
C12_MalformedNoEffect ==
    [][MalformedStepInert]_vars /\ [](MalformedRemovable)

\* A membership written from a file whose first and second lines are
\* malformed and whose third is an edge.
C12_Witness ==
    /\ Written
    /\ Len(consumed) = 3
    /\ KindTable[consumed[1]] = "few_fields"
    /\ KindTable[consumed[2]] = "bad_distance"
    /\ KindTable[consumed[3]] = "edge"
    /\ Len(membership) = 2

\* The malformed lines of a file, by position.
MalformedAt(lines) == {i \in 1..Len(lines) : Malformed(lines[i])}

\* C13: after the stream the driver holds one recorded diagnostic, with the
\* line content, for every malformed line read.
C13_MalformedRecorded ==
    Exhausted =>
        /\ Len(RecordedFailures(consumed)) = Cardinality(MalformedAt(consumed))
        /\ \A i \in MalformedAt(consumed) :
              \E k \in 1..Len(RecordedFailures(consumed)) :
                  RecordedFailures(consumed)[k] = consumed[i]

\* C14: a run whose stream yields no vertex does not end in an error.
C14_EmptyInputValid ==
    (Exhausted /\ DOMAIN uf.parent = {} /\ genomes = {}) => pc # "ValueError"

\* C15: the step that reads a blank line or a line beginning with '#', as
\* first line or later, changes nothing of the forest, the genome set and
\* the counters, and adds nothing to what is kept of malformed lines.
C15_CommentBlankInert ==
    [][(ReadsALine /\ KindTable[LineJustRead] \in {"blank", "comment"}) =>
          /\ uf' = uf
          /\ genomes' = genomes
          /\ total_edges' = total_edges
          /\ edges_below_threshold' = edges_below_threshold
          /\ RecordedFailures(consumed') = RecordedFailures(consumed)]_vars

\* A comment as first line, a blank line after an edge: only the edge has
\* left a trace.
C15_Witness ==
    /\ pc = "loop"
    /\ Len(consumed) = 3
    /\ KindTable[consumed[1]] = "comment"
    /\ consumed[2] = LineAB
    /\ KindTable[consumed[3]] = "blank"
    /\ genomes = {<<"A">>, <<"B">>}
    /\ total_edges = 1

\* The lines whose distance token float() accepts as nan or an infinity.
NonFinite(raw) ==
    EdgeTable[raw].ok /\ EdgeTable[raw].distance.kind \in {"nan", "inf"}

FiniteOrSkipped(raw) == ~NonFinite(raw)

\* C16: a line whose distance is not a finite number is rejected like a
\* bad distance: after the stream the genome set, the forest keys and both
\* counters are those of the file without such lines.
C16_NonFiniteRejected ==
    Exhausted =>
        LET finite == SelectSeq(consumed, FiniteOrSkipped)
        IN  /\ genomes = Endpoints(finite)
            /\ DOMAIN uf.parent = Endpoints(finite)
            /\ total_edges = Cardinality(ParsedAt(finite))
            /\ edges_below_threshold = Cardinality(LinkingAt(finite, threshold))

\* C17: the rows of the membership file ascend by cluster_id and, within
\* one cluster_id, by genome name.
C17_MembershipOrder ==
    Written =>
        \A i, j \in 1..Len(membership) :
            i < j =>
                \/ membership[i].cluster_id < membership[j].cluster_id
                \/ /\ membership[i].cluster_id = membership[j].cluster_id
                   /\ StrLess(membership[i].genome, membership[j].genome)

\* A membership whose first cluster was ingested in descending name order
\* (B and C before A) and is followed by another cluster.
C17_Witness ==
    /\ Written
    /\ consumed = <<LineBC, LineAB, LineXY>>
    /\ threshold = T005
    /\ uf.order[1] = <<"B">>
    /\ membership[1].genome = <<"A">>
    /\ membership[4].cluster_id = 1

\* The genome names that the lines of the input alphabet can register.
AllGenomes ==
    UNION {{EdgeTable[raw].source, EdgeTable[raw].target} :
              raw \in {l \in Lines : EdgeTable[l].ok}}

\* The keys of a dict in insertion order are pairwise distinct and are the
\* keys of the table.
OneEntryEach(order, table) ==
    /\ {order[i] : i \in 1..Len(order)} = DOMAIN table
    /\ \A i, j \in 1..Len(order) : order[i] = order[j] => i = j

\* C24: in every state of a clustering run the keys of parent, the keys of
\* rank and the genome set are the same set, with one entry per key; and
\* while the file is read, registering a genome (uf.find, lines 137-140)
\* adds it as its own parent with rank 0 when it is new and leaves the key
\* set and the ranks alone when it is known.
C24_ParallelTables ==
    /\ DOMAIN uf.parent = genomes
    /\ DOMAIN uf.rank = genomes
    /\ OneEntryEach(uf.order, uf.parent)
    /\ \A g \in (IF Exhausted THEN {} ELSE AllGenomes) :
          LET after == Find(uf, g).uf
          IN  IF g \in genomes
              THEN /\ DOMAIN after.parent = DOMAIN uf.parent
                   /\ after.rank = uf.rank
                   /\ after.order = uf.order
              ELSE /\ DOMAIN after.parent = genomes \cup {g}
                   /\ DOMAIN after.rank = genomes \cup {g}
                   /\ after.parent[g] = g
                   /\ after.rank[g] = 0
                   /\ \A h \in genomes : /\ after.parent[h] = uf.parent[h]
                                         /\ after.rank[h] = uf.rank[h]
                   /\ after.order = Append(uf.order, g)

\* Three lines over three genomes: B and A are registered again by the
\* second and third line.
C24_Witness ==
    /\ pc = "loop"
    /\ consumed = <<LineAB, LineBC, LineAB02>>
    /\ Cardinality(genomes) = 3
    /\ Len(uf.order) = 3

\* C25: once the file has been read to its end, no step of the run (the
\* enumeration of the classes by get_clusters, the numbering, the
\* statistics, the writing) changes the parent or the rank table.
C25_ForestFrozen ==
    [][Exhausted => (uf'.parent = uf.parent /\ uf'.rank = uf.rank)]_vars

\* The lines read with the line at position i moved to the front.
MovedToFront(lines, i) ==
    <<lines[i]>> \o SubSeq(lines, 1, i - 1) \o SubSeq(lines, i + 1, Len(lines))

\* C28: where the first line is handled (on the fresh locals of main), the
\* first line's block and one iteration of the loop have the same effect on
\* the forest, the genome set and the two counters, for every line; and
\* when the file is exhausted, the file with any later line moved to the
\* first position gives the same partition, genome set and counters.
C28_PositionIndependence ==
    /\ pc = "start" =>
          \A raw \in Lines :
              FirstLine(Driver, raw, threshold)
                  = LoopLine(Driver, raw, threshold)
    /\ pc = "eof" =>
          \A i \in 2..Len(consumed) :
              LET d == RunDriver(MovedToFront(consumed, i), threshold)
              IN  /\ Partition(d.uf) = Partition(uf)
                  /\ d.genomes = genomes
                  /\ d.total_edges = total_edges
                  /\ d.edges_below_threshold = edges_below_threshold

\* The self-edge (X,X,0.0) read as the first line and again by the loop,
\* and the file exhausted: both are counted and neither is below-threshold.
C28_Witness ==
    /\ pc = "eof"
    /\ Len(consumed) >= 2
    /\ consumed[1] = LineXX
    /\ consumed[2] = LineXX
    /\ total_edges >= 2
    /\ edges_below_threshold = 0

(***************************************************************************)
(* Properties of extract_representatives.                                  *)
(***************************************************************************)
\* What a line of the cluster file says: whether it is a data row, and its
\* genome and cluster id.
RowOf(line) ==
    LET p == Split(Strip(line), TAB)
    IN  [data    |-> Len(p) >= 2,
         genome  |-> p[1],
         cluster |-> IF Len(p) >= 2 THEN ParseInt(p[2]).val ELSE -1]

RowTable == [l \in RowLines |-> RowOf(l)]

\* The positions of the rows of the file read that list a genome of
\* cluster c.
RowsOfCluster(c) ==
    {i \in 1..Len(ex_rows) :
        RowTable[ex_rows[i]].data /\ RowTable[ex_rows[i]].cluster = c}

\* The distinct cluster ids of the file read.
InputClusters ==
    {RowTable[ex_rows[i]].cluster :
        i \in {j \in 1..Len(ex_rows) : RowTable[ex_rows[j]].data}}

\* The first genome the file lists for cluster c.
FirstListed(c) ==
    LET first == CHOOSE i \in RowsOfCluster(c) :
                     \A j \in RowsOfCluster(c) : i <= j
    IN  RowTable[ex_rows[first]].genome

\* Every genome of a split is the first genome listed for the cluster id
\* at the same position.
RepresentsFirst(gs, cs) ==
    /\ Len(gs) = Len(cs)
    /\ \A i \in 1..Len(cs) :
          cs[i] \in InputClusters /\ gs[i] = FirstListed(cs[i])

\* The number of positions of q that hold c.
Occurrences(q, c) == Cardinality({i \in 1..Len(q) : q[i] = c})

\* The split has passed the verification of lines 105-113.
SplitDone == ex_pc \in {"save", "done"}

\* The split has been computed from fractions that are not negative, and
\* the verification has yet to run.
SplitComputed ==
    /\ ex_pc = "verify"
    /\ train_frac.num * train_frac.den >= 0
    /\ dev_frac.num * dev_frac.den >= 0

\* C18: once extract_representatives has verified its split (and, when no
\* part of the ratio makes a fraction negative, as soon as it has computed
\* it), for every cluster file, split ratio and shuffle outcome, there is
\* exactly one representative per distinct cluster id of the file, it is
\* the first genome listed for that cluster, the train, dev and test
\* cluster-id sets are pairwise disjoint, and every cluster id is in exactly
\* one of them exactly once.
C18_LeakFreeSplit ==
    (SplitDone \/ SplitComputed) =>
        /\ RepresentsFirst(representatives, cluster_ids)
        /\ \A c \in InputClusters : Occurrences(cluster_ids, c) = 1
        /\ RepresentsFirst(train_genomes, train_clusters)
        /\ RepresentsFirst(dev_genomes, dev_clusters)
        /\ RepresentsFirst(test_genomes, test_clusters)
        /\ {train_clusters[i] : i \in 1..Len(train_clusters)}
              \cap {dev_clusters[i] : i \in 1..Len(dev_clusters)} = {}
        /\ {train_clusters[i] : i \in 1..Len(train_clusters)}
              \cap {test_clusters[i] : i \in 1..Len(test_clusters)} = {}
        /\ {dev_clusters[i] : i \in 1..Len(dev_clusters)}
              \cap {test_clusters[i] : i \in 1..Len(test_clusters)} = {}
        /\ \A c \in InputClusters :
              Occurrences(train_clusters \o dev_clusters \o test_clusters, c)
                  = 1

\* A finished run on a file that lists two genomes for one cluster, with a
\* non-empty train split and a non-empty test split.
C18_Witness ==
    /\ ex_pc = "done"
    /\ \E c \in InputClusters : Cardinality(RowsOfCluster(c)) >= 2
    /\ train_clusters # <<>>
    /\ test_clusters # <<>>
    /\ saved.all_representatives # <<>>

(***************************************************************************)
(* Properties of the UnionFind object.                                     *)
(***************************************************************************)
\* Following parent pointers from x reaches a root within fuel steps, and
\* every node on the way is registered.
RECURSIVE ReachesRoot(_, _, _)
ReachesRoot(u, x, fuel) ==
    /\ x \in DOMAIN u.parent
    /\ \/ u.parent[x] = x
       \/ fuel > 0 /\ ReachesRoot(u, u.parent[x], fuel - 1)

\* C19: in every state reached by find and union calls, every parent value
\* is a registered node and the parent chain of every registered node ends
\* at a root after fewer steps than there are nodes (so there is no cycle
\* of length > 1).
C19_ForestAcyclic ==
    /\ DOMAIN uf.rank = DOMAIN uf.parent
    /\ \A x \in DOMAIN uf.parent :
          /\ uf.parent[x] \in DOMAIN uf.parent
          /\ ReachesRoot(uf, x, Cardinality(DOMAIN uf.parent) - 1)

\* A forest with a chain of two parent links below a root.
C19_Witness ==
    \E x \in DOMAIN uf.parent :
        /\ uf.parent[x] # x
        /\ uf.parent[uf.parent[x]] # uf.parent[x]
        /\ uf.parent[uf.parent[uf.parent[x]]] = uf.parent[uf.parent[x]]

\* The forest with x registered as a root of rank 0 when it is not yet
\* known: the state union's two find calls start the linking from.
Registered(u, x) ==
    IF x \in DOMAIN u.parent THEN u
    ELSE [parent |-> u.parent @@ (x :> x),
          rank   |-> u.rank @@ (x :> 0),
          order  |-> Append(u.order, x)]

RootsOf(u) == {r \in DOMAIN u.parent : u.parent[r] = r}

ClassOf(u, x) == {n \in DOMAIN u.parent : Root(u, n) = Root(u, x)}

\* The root of every node of the forest u.
RootOf(u) == [n \in DOMAIN u.parent |-> Root(u, n)]

\* What the claim requires of union(x, y) on the forest u.  The partition is
\* compared through the roots: with the same root x and y leave every node
\* its root; otherwise the nodes of the attached root's tree move to the
\* surviving root and every other node keeps its root, which is the merge
\* of the two classes and of nothing else.
UnionByRank(u, x, y) ==
    LET b  == Registered(Registered(u, x), y)
        a  == Union(u, x, y)
        rb == RootOf(b)
        ra == RootOf(a)
        rx == rb[x]
        ry == rb[y]
    IN  /\ DOMAIN a.parent = DOMAIN b.parent
        /\ DOMAIN a.rank = DOMAIN b.rank
        /\ IF rx = ry
           THEN /\ ra = rb
                /\ a.rank = b.rank
           ELSE \E w \in {rx, ry} :
                    LET l == IF w = rx THEN ry ELSE rx
                    IN  /\ a.parent[l] = w
                        /\ a.parent[w] = w
                        /\ b.rank[l] <= b.rank[w]
                        /\ a.rank[w] = b.rank[w]
                               + (IF b.rank[l] = b.rank[w] THEN 1 ELSE 0)
                        /\ \A n \in DOMAIN b.rank \ {w} :
                              a.rank[n] = b.rank[n]
                        /\ RootsOf(a) = RootsOf(b) \ {l}
                        /\ ra = [n \in DOMAIN b.parent |->
                                    IF rb[n] = l THEN w ELSE rb[n]]

\* C20: on every reachable forest and for every x and y, union(x, y) leaves
\* the partition and all ranks alone when x and y have the same root;
\* otherwise exactly one of the two roots becomes a child of the other, a
\* root of strictly smaller rank going under the root of larger rank, the
\* surviving root's rank grows by one exactly when the two ranks were equal,
\* and no other rank changes.
C20_UnionByRank == \A x, y \in Nodes : UnionByRank(uf, x, y)

\* A root of rank 1 with two children: a root of rank 0 has been attached
\* under a root of rank 1 (two roots of rank 1 would have given rank 2).
C20_Witness ==
    \E r \in DOMAIN uf.parent :
        /\ uf.parent[r] = r
        /\ uf.rank[r] = 1
        /\ Cardinality({n \in DOMAIN uf.parent \ {r} : uf.parent[n] = r}) >= 2

\* C21: on every reachable forest, union(a, b) and union(b, a) leave the
\* same roots, so the root that survives a merge (the representative the
\* statistics file reports) does not depend on the order of the two
\* arguments.
C21_TieDeterminism ==
    \A a, b \in Nodes : RootsOf(Union(uf, a, b)) = RootsOf(Union(uf, b, a))

\* The nodes on the parent chain from x up to its root, x and the root
\* included.
RECURSIVE ChainOf(_, _)
ChainOf(u, x) ==
    IF u.parent[x] = x THEN {x} ELSE {x} \cup ChainOf(u, u.parent[x])

\* The number of parent links find follows from x before it is at a root.
RECURSIVE Depth(_, _)
Depth(u, x) == IF u.parent[x] = x THEN 0 ELSE 1 + Depth(u, u.parent[x])

\* C22: on every reachable forest and for every x, find(x) returns the root
\* of x, and afterwards x and every node that was on the chain from x to the
\* root has the root as its parent, so that a repeated find(x) follows at
\* most one parent link.
C22_PathCompression ==
    \A x \in Nodes :
        LET b == Registered(uf, x)
            f == Find(uf, x)
        IN  /\ f.root = Root(b, x)
            /\ \A n \in ChainOf(b, x) : f.uf.parent[n] = f.root
            /\ Depth(f.uf, x) <= 1

\* A root of rank 2 with every other node as its direct child: two trees
\* of rank 1 have been merged, which leaves a chain of two links, and a find
\* has flattened it.
C22_Witness ==
    /\ Cardinality(DOMAIN uf.parent) >= 4
    /\ \E r \in DOMAIN uf.parent :
          /\ uf.rank[r] = 2
          /\ \A n \in DOMAIN uf.parent : uf.parent[n] = r

\* C23: find of an id that is not registered does not add the id to the
\* forest.
C23_UnregisteredFatal ==
    \A x \in Nodes \ DOMAIN uf.parent :
        x \notin DOMAIN Find(uf, x).uf.parent

\* 2^n
RECURSIVE Pow2(_)
Pow2(n) == IF n = 0 THEN 1 ELSE 2 * Pow2(n - 1)

\* C26: on every reachable forest and for every root r, no node of r's tree
\* is more than rank[r] parent links away from r, and the tree has at least
\* 2^rank[r] nodes.
C26_RankBoundsHeight ==
    \A r \in RootsOf(uf) :
        /\ \A n \in ClassOf(uf, r) : Depth(uf, n) <= uf.rank[r]
        /\ Cardinality(ClassOf(uf, r)) >= Pow2(uf.rank[r])

\* A root of rank 2 with a node two links below it: the height reaches the
\* rank and the tree has 4 nodes.
C26_Witness ==
    \E r \in RootsOf(uf) :
        /\ uf.rank[r] = 2
        /\ \E n \in ClassOf(uf, r) : Depth(uf, n) = 2

\* C27: on every reachable forest and for every registered x, find(x)
\* changes no equivalence class, no root and no rank; the only parent
\* entries it changes are those of nodes on x's chain, which it sets to the
\* root the chain had.
C27_FindPreservesPartition ==
    \A x \in DOMAIN uf.parent :
        LET after == Find(uf, x).uf
        IN  /\ Partition(after) = Partition(uf)
            /\ RootsOf(after) = RootsOf(uf)
            /\ after.rank = uf.rank
            /\ DOMAIN after.parent = DOMAIN uf.parent
            /\ \A n \in DOMAIN uf.parent :
                  \/ after.parent[n] = uf.parent[n]
                  \/ n \in ChainOf(uf, x) /\ after.parent[n] = Root(uf, x)

\* A forest on which find(x) of a registered x redirects a parent pointer.
C27_Witness ==
    \E x \in DOMAIN uf.parent : Find(uf, x).uf.parent # uf.parent

(***************************************************************************)
(* Properties of get_random_nonoverlapping_positions.                      *)
(***************************************************************************)
\* The start positions of q lie in [0, genome_length - segment_length] and
\* any two of them are at least segment_length apart.
Disjoint(q) ==
    /\ \A i \in 1..Len(q) :
          q[i] >= 0 /\ q[i] <= genome_length - segment_length
    /\ \A i, j \in 1..Len(q) :
          i # j => \/ q[i] + segment_length <= q[j]
                   \/ q[j] + segment_length <= q[i]

\* What holds of the list returned and of the positions placed so far.
SamplingSafe ==
    /\ Len(positions) <= n_samples
    /\ Disjoint(positions)
    /\ gave_up => /\ sa_pc \in {"sort", "returned"}
                  /\ Len(positions) < n_samples
    /\ sa_pc = "returned" =>
          /\ Len(sa_result) <= n_samples
          /\ \A i \in 1..(Len(sa_result) - 1) : sa_result[i] < sa_result[i + 1]
          /\ Disjoint(sa_result)
          /\ {sa_result[i] : i \in 1..Len(sa_result)}
                 = {positions[i] : i \in 1..Len(positions)}
          /\ genome_length < segment_length => sa_result = <<>>
          /\ gave_up => Len(sa_result) < n_samples

\* A placement that has failed max_attempts draws ends the placing: the
\* next step leaves the loop, and nothing is placed afterwards.
StopsAtFailure ==
    /\ (sa_pc = "attempt" /\ attempt >= max_attempts) =>
          (gave_up' /\ sa_pc' = "sort" /\ positions' = positions)
    /\ gave_up => (gave_up' /\ positions' = positions)

\* C29: for every genome_length, n_samples, segment_length >= 1,
\* max_attempts and every sequence of draws, the list returned is ascending,
\* has at most n_samples positions, each in
\* [0, genome_length - segment_length], any two at least segment_length
\* apart; it is empty when genome_length < segment_length; and once one
\* placement has failed max_attempts consecutive draws nothing more is
\* placed and fewer than n_samples positions are returned.
C29_NonOverlappingSampling == [][StopsAtFailure]_vars /\ [](SamplingSafe)

\* A call that placed one segment in the middle of the genome, failed every
\* draw for the second and returned the one position.
C29_Witness ==
    /\ sa_pc = "returned"
    /\ gave_up
    /\ n_samples = 2
    /\ Len(sa_result) = 1
    /\ attempt = max_attempts
    /\ max_attempts >= 1

(***************************************************************************)
(* Properties of select_phage_only_genomes.                                *)
(***************************************************************************)
\* The genomes the vclust file read lists for cluster c.
MembersListed(c) ==
    {RowTable[sel_rows[i]].genome :
        i \in {j \in 1..Len(sel_rows) :
                  RowTable[sel_rows[j]].data /\ RowTable[sel_rows[j]].cluster = c}}

\* The cluster ids of the vclust file read.
ClustersListed ==
    {RowTable[sel_rows[i]].cluster :
        i \in {j \in 1..Len(sel_rows) : RowTable[sel_rows[j]].data}}

\* The clusters none of whose members is a fine-tuning accession.
UntouchedClusters ==
    {c \in ClustersListed : MembersListed(c) \cap finetuning_accessions = {}}

\* The selection has been made.
Selected == sel_pc \in {"save", "done"}

\* Every selected genome is a member of the cluster it is selected for,
\* that cluster holds no fine-tuning accession, and no cluster is selected
\* twice.
AvoidsFineTuning ==
    Selected =>
        /\ \A i \in 1..Len(selected) :
              /\ selected[i].cluster \in UntouchedClusters
              /\ selected[i].rep \in MembersListed(selected[i].cluster)
        /\ \A i, j \in 1..Len(selected) :
              selected[i].cluster = selected[j].cluster => i = j

\* When --n-genomes is given and smaller than the number of available
\* clusters, that many genomes are selected.
SelectsNGenomes ==
    (Selected /\ n_genomes.given
        /\ n_genomes.val < Cardinality(UntouchedClusters))
    => Len(selected) = n_genomes.val

\* C30: every genome selected by select_phage_only_genomes belongs to a
\* cluster none of whose members is a fine-tuning accession, at most one
\* genome is selected per cluster, and when --n-genomes is given and smaller
\* than the number of available clusters exactly that many genomes are
\* selected.
C30_PhageOnlySelection == AvoidsFineTuning /\ SelectsNGenomes

=============================================================================
